---------------------------- MODULE Spec2Model ----------------------------
(***************************************************************************)
(* A model of seutils: the address model (split_mgm / format), the        *)
(* metadata cache wrapped around the read queries, the removal            *)
(* operations with their safety guard, the bounded walk and the chunked   *)
(* hadd merge, run_command with its retries and dry mode, the default     *)
(* server, the tarball of the cache, ls_wildcard, and the read queries    *)
(* that follow mutations.  Each part has its own specification (SpecAddr, *)
(* SpecCache, SpecRm, SpecWalk, SpecHadd, SpecRun, SpecMgm, SpecTar,      *)
(* SpecWild, SpecSe, SpecStale, SpecLoad, SpecGlob) over the same         *)
(* variables; the variables a part does not use keep their initial value. *)
(***************************************************************************)
EXTENDS Integers, Sequences, FiniteSets, TLC

VARIABLES
    (* address model *)
    DEFAULT_MGM,    \* the module global DEFAULT_MGM (an optional string)
    a_path,         \* argument `path` of the call under study
    a_mgm,          \* argument `mgm` of the call under study (optional)
    a_pc,           \* which calls have been made
    a_res,          \* outcome of the first call
    a_res2,         \* outcome of the follow-up call
    (* read queries and their cache *)
    USE_CACHE,      \* the module global USE_CACHE
    q_cache,        \* the stored entries of the cache stores (CACHES)
    q_fs,           \* the remote namespace: node -> "missing" | "dir" | "file"
    q_proto,        \* protocol of the addresses queried ("root": xrootd tools)
    q_fault,        \* TRUE when the remote host is unreachable
    q_ncalls,       \* number of queries issued so far
    q_last,         \* the last query: its arguments, outcome and processes spawned
    q_class,        \* per node, the last value is_file_or_dir returned (-1: none)
    (* removal and its safety guard *)
    RM_BLACKLIST,   \* the module global RM_BLACKLIST (its entries)
    RM_WHITELIST,   \* the module global RM_WHITELIST (its entries)
    r_fs,           \* the remote namespace: logical path -> "missing" | "dir" | "file"
    r_eos,          \* what looking up the `eos` executable gives on this host
    r_last,         \* the last removal or creation since the lists were set
    (* the walk *)
    MAX_RECURSION_DEPTH, \* the module global MAX_RECURSION_DEPTH
    w_shape,        \* the shape of the directory tree
    w_n,            \* the number of directories of the tree
    w_root,         \* per walk, the path it was called with
    w_stat,         \* per walk, its argument stat
    w_pc,           \* per walk: "created", "suspended", "done" or "raised"
    w_err,          \* per walk, the exception it ended in
    w_stack,        \* per walk, the frames of its suspended _walk calls
    w_counter,      \* per walk, counter.i
    w_requests,     \* per walk, the number of listings it has asked for
    w_listed,       \* per walk, the directories it has listed
    w_pruned,       \* per walk, the directories its consumer has removed
    w_prunes,       \* the number of removals by consumers so far
    (* the chunked merge *)
    h_n,            \* the number of files to merge
    h_chunk_size,   \* argument chunk_size
    h_n_threads,    \* argument n_threads
    h_dry,          \* argument dry
    h_on_path,      \* whether the merge tool hadd is on the path
    h_stack,        \* the frames of the nested _hadd_chunks calls
    h_pc,           \* "running", "done" or "raised"
    h_err,          \* the exception the outermost call ended in
    h_dirs,         \* the scratch directories that exist
    h_files,        \* the chunk files that exist
    h_created,      \* the scratch directories created so far
    h_log,          \* the merges issued so far
    (* running commands *)
    DRYMODE,        \* the module global DRYMODE
    c_arg,          \* argument `dry` of the run_command call: "None", "True" or "False"
    c_dry,          \* the local `dry` once resolved against DRYMODE
    c_ok,           \* argument non_zero_exitcode_ok
    c_retries,      \* argument n_retries
    c_pc,           \* "idle", "loop", "sleeping", "returned" or "raised"
    c_attempt,      \* the local i_attempt
    c_codes,        \* the exit codes of the processes spawned by this call, in order
    c_slept,        \* the seconds this call has slept
    c_result,       \* what the call returned or raised
    c_error,        \* the exception object run_command raised (NoError: none)
    o_last,          \* the last operation of the module that was called, and what it did
    (* default server *)
    m_env,          \* the environment variable SEU_DEFAULT_MGM (an optional string)
    m_set,           \* the argument of the last set_default_mgm call by the caller, if any
    (* export of the cache *)
    t_use_cache,    \* the module global USE_CACHE as tarball_cache and write_cache read it
    t_now,          \* the next reading of datetime.datetime.now()
    t_last_write,   \* the module global _LAST_CACHE_WRITE (an optional time)
    t_last_tarball, \* the module global _LAST_TARBALL_CACHE (an optional time)
    t_last_path,    \* the module global _LAST_TARBALL_PATH (an optional string)
    t_exported,     \* whether an export has succeeded so far
    t_dirty,        \* whether write_cache has written since the last successful export
    t_last,          \* the last call, what it saw and what it did
    (* wildcard listing *)
    k_files,        \* the basenames of the files in the parent directory
    k_subdir,       \* the basename of the directory in the parent directory, if any
    k_segment,      \* the last segment of the pattern
    k_stat,         \* argument stat
    k_res,           \* what ls_wildcard returned
    (* reads after mutations *)
    x_content,      \* the contents of the files on the storage element
    x_last,          \* the last mutation that was called, and how it ended
    (* the cache directory *)
    l_use_cache,    \* the module global USE_CACHE, for the cache directory
    CACHEDIR,       \* the module global CACHEDIR (an absolute path)
    CACHES,         \* the module global CACHES: per store, the directory it was made for
    l_disk,         \* per directory, what its stores hold
    l_loaded,       \* the directory of the last load that returned
    l_nloads,       \* number of loads so far
    l_last,          \* the last cache operation and how it ended
    (* ls_wildcard and its listing requests *)
    g_tree,         \* the remote tree: path -> "missing" | "dir" | "file"
    g_pattern,      \* the pattern ls_wildcard is called with
    g_stat,         \* argument `stat` of the call under way
    g_pc,           \* where the call is
    g_path,         \* which path of ls_wildcard the call took
    g_stack,        \* the directories the walk has still to list
    g_listed,       \* the directories listed by the call, in order
    g_matches,      \* the list `matches` of the call
    g_res,          \* the outcome of the call
    g_prev          \* the call before: its path, its stat and its outcome

addrVars == <<DEFAULT_MGM, a_path, a_mgm, a_pc, a_res, a_res2>>
cacheVars == <<USE_CACHE, q_cache, q_fs, q_proto, q_fault, q_ncalls, q_last, q_class>>

rmVars == <<RM_BLACKLIST, RM_WHITELIST, r_fs, r_eos, r_last>>

walkVars == <<MAX_RECURSION_DEPTH, w_shape, w_n, w_root, w_stat, w_pc, w_err, w_stack,
              w_counter, w_requests, w_listed, w_pruned, w_prunes>>

haddVars == <<h_n, h_chunk_size, h_n_threads, h_dry, h_on_path, h_stack, h_pc, h_err,
              h_dirs, h_files, h_created, h_log>>

runVars == <<DRYMODE, c_arg, c_dry, c_ok, c_retries, c_pc, c_attempt, c_codes, c_slept,
    c_result, c_error, o_last>>

mgmVars == <<m_env, m_set>>

tarVars == <<t_use_cache, t_now, t_last_write, t_last_tarball, t_last_path, t_exported,
    t_dirty, t_last>>

wildVars == <<k_files, k_subdir, k_segment, k_stat, k_res>>

seVars == <<x_content, x_last>>

loadVars == <<l_use_cache, CACHEDIR, CACHES, l_disk, l_loaded, l_nloads, l_last>>

globVars == <<g_tree, g_pattern, g_stat, g_pc, g_path, g_stack, g_listed, g_matches,
    g_res, g_prev>>

vars == <<addrVars, cacheVars, rmVars, walkVars, haddVars, runVars, mgmVars, tarVars, wildVars, seVars, loadVars, globVars>>
nonAddrVars == <<cacheVars, rmVars, walkVars, haddVars, runVars, mgmVars, tarVars, wildVars, seVars, loadVars, globVars>>
nonCacheVars == <<addrVars, rmVars, walkVars, haddVars, runVars, mgmVars, tarVars, wildVars, seVars, loadVars, globVars>>
nonRmVars == <<addrVars, cacheVars, walkVars, haddVars, runVars, mgmVars, tarVars, wildVars, seVars, loadVars, globVars>>
nonWalkVars == <<addrVars, cacheVars, rmVars, haddVars, runVars, mgmVars, tarVars, wildVars, seVars, loadVars, globVars>>
nonHaddVars == <<addrVars, cacheVars, rmVars, walkVars, runVars, mgmVars, tarVars, wildVars, seVars, loadVars, globVars>>
nonRunVars == <<addrVars, cacheVars, rmVars, walkVars, haddVars, mgmVars, tarVars, wildVars, seVars, loadVars, globVars>>
\* SpecMgm works on the address variables too
nonMgmVars == <<cacheVars, rmVars, walkVars, haddVars, runVars, tarVars, wildVars, seVars, loadVars, globVars>>
nonTarVars == <<addrVars, cacheVars, rmVars, walkVars, haddVars, runVars, mgmVars, wildVars, seVars, loadVars, globVars>>
nonWildVars == <<addrVars, cacheVars, rmVars, walkVars, haddVars, runVars, mgmVars, tarVars, seVars, loadVars, globVars>>
\* SpecSe works on the variables of the read queries too
nonSeVars == <<addrVars, rmVars, walkVars, haddVars, runVars, mgmVars, tarVars, wildVars, loadVars, globVars>>
nonLoadVars == <<addrVars, cacheVars, rmVars, walkVars, haddVars, runVars, mgmVars, tarVars, wildVars, seVars, globVars>>
nonGlobVars == <<addrVars, cacheVars, rmVars, walkVars, haddVars, runVars, mgmVars, tarVars, wildVars, seVars, loadVars>>

-----------------------------------------------------------------------------
(* Python values *)

\* an optional string: None, or a string (a sequence of characters)
NoneStr == [some |-> FALSE, v |-> <<>>]
Some(s) == [some |-> TRUE, v |-> s]

\* the outcome of a call: a returned value, or a raised exception
Ok(v) == [exc |-> "ok", val |-> v]
Raise(e) == [exc |-> e, val |-> <<>>]

\* Python values held by the cache and returned by the queries
PyNone == [t |-> "None"]
PyBool(b) == [t |-> "bool", b |-> b]
PyInt(i) == [t |-> "int", i |-> i]
PyInode(node, isdir) == [t |-> "Inode", path |-> node, isdir |-> isdir]
PyList(s) == [t |-> "list", items |-> s]

\* `not val`
Falsy(v) ==
    \/ v.t = "None"
    \/ (v.t = "bool" /\ ~v.b)
    \/ (v.t = "int" /\ v.i = 0)
    \/ (v.t = "list" /\ v.items = <<>>)

\* the outcome of a query, with the cache it leaves and the processes it spawned
Ret(v, c, n) == [exc |-> "ok", val |-> v, c |-> c, n |-> n]
Exc(e, c, n) == [exc |-> e, val |-> PyNone, c |-> c, n |-> n]

-----------------------------------------------------------------------------
(* Strings are sequences of characters *)

Chars == {"/", ":", "a"}

MaxLfnLen == 4
MaxMgmLen == 3

RECURSIVE StrsUpTo(_)
StrsUpTo(n) ==
    IF n = 0 THEN {<<>>}
    ELSE LET S == StrsUpTo(n - 1)
         IN  S \cup {Append(s, c) : s \in S, c \in Chars}

startswith(s, pre) ==
    Len(pre) <= Len(s) /\ SubSeq(s, 1, Len(pre)) = pre

endswith(s, suf) ==
    Len(suf) <= Len(s) /\ SubSeq(s, Len(s) - Len(suf) + 1, Len(s)) = suf

\* index of the first occurrence of pat in s, 0 when there is none
find(s, pat) ==
    LET I == {i \in 1..(Len(s) - Len(pat) + 1) : SubSeq(s, i, i + Len(pat) - 1) = pat}
    IN  IF I = {} THEN 0 ELSE CHOOSE i \in I : \A j \in I : i <= j

contains(s, pat) == find(s, pat) # 0

\* s.split(pat, 1) for a pat that occurs in s
split1(s, pat) ==
    LET i == find(s, pat)
    IN  <<SubSeq(s, 1, i - 1), SubSeq(s, i + Len(pat), Len(s))>>

SepProto == <<":", "/", "/">>
SepLfn == <<"/", "/">>
Slash == <<"/">>

-----------------------------------------------------------------------------
(* Path management *)

get_default_mgm ==
    IF ~DEFAULT_MGM.some THEN Raise("NoDefaultServer") ELSE Ok(DEFAULT_MGM.v)

has_protocol(filename) == contains(filename, SepProto)

split_protocol_pfn(filename) ==
    IF ~has_protocol(filename) THEN Raise("MalformedAddress")
    ELSE LET pr == split1(filename, SepProto)
             protocol == pr[1]
             rest == pr[2]
         IN  IF ~contains(rest, SepLfn) THEN Raise("MalformedAddress")
             ELSE LET sl == split1(rest, SepLfn)
                  IN  Ok(<<protocol, sl[1], Slash \o sl[2]>>)

_split_mgm_pfn(filename) ==
    LET r == split_protocol_pfn(filename)
    IN  IF r.exc # "ok" THEN r
        ELSE Ok(<<r.val[1] \o SepProto \o r.val[2], r.val[3]>>)

\* the sanity check that closes split_mgm
split_mgm_check(mgm, lfn) ==
    IF ~startswith(lfn, Slash) THEN Raise("MalformedAddress") ELSE Ok(<<mgm, lfn>>)

\* a split_mgm that silently takes the server of the path
split_mgm_conflict_silent(mgm, mgm_from_path) == FALSE

split_mgm_conflict(mgm, mgm_from_path) ==
    mgm.some /\ mgm_from_path # mgm.v

split_mgm(path, mgm) ==
    IF has_protocol(path)
    THEN LET r == _split_mgm_pfn(path)
         IN  IF r.exc # "ok" THEN r
             ELSE IF split_mgm_conflict(mgm, r.val[1]) THEN Raise("ConflictingServer")
             ELSE split_mgm_check(r.val[1], r.val[2])
    ELSE IF ~mgm.some
    THEN LET d == get_default_mgm
         IN  IF d.exc # "ok" THEN d ELSE split_mgm_check(d.val, path)
    ELSE split_mgm_check(mgm.v, path)

\* a join that never inserts a '/'
_join_mgm_lfn_no_slash(mgm, lfn) ==
    IF ~startswith(lfn, Slash) THEN Raise("MalformedAddress")
    ELSE Ok(mgm \o lfn)

_join_mgm_lfn(mgm, lfn) ==
    IF ~startswith(lfn, Slash) THEN Raise("MalformedAddress")
    ELSE Ok((IF ~endswith(mgm, Slash) THEN mgm \o Slash ELSE mgm) \o lfn)

format(path, mgm) ==
    LET r == split_mgm(path, mgm)
    IN  IF r.exc # "ok" THEN r ELSE _join_mgm_lfn(r.val[1], r.val[2])

-----------------------------------------------------------------------------
(* SpecAddr: calls of format and split_mgm on enumerated arguments *)

EnvMgm == <<"a", ":", "/", "/", "a">>

\* the protocols, servers and path remainders the composed arguments are made of
Parts == StrsUpTo(1)

\* physical file names: protocol://server//rest
PfnPaths ==
    {p \o SepProto \o s \o SepLfn \o r : p \in Parts, s \in Parts, r \in Parts}

\* server strings: protocol://server, with or without a trailing '/'
PfnMgms ==
    {p \o SepProto \o s \o t : p \in Parts, s \in Parts, t \in {<<>>, Slash}}

\* bare logical paths: they start with '/'
BarePaths ==
    {Slash \o s : s \in StrsUpTo(MaxLfnLen - 1)} \cup {Slash \o x : x \in PfnPaths}

MgmArgs == {NoneStr} \cup {Some(s) : s \in StrsUpTo(MaxMgmLen) \cup PfnMgms}

InitAddr ==
    /\ DEFAULT_MGM \in {NoneStr, Some(EnvMgm)}
    /\ a_path \in BarePaths \cup PfnPaths
    /\ a_mgm \in MgmArgs
    /\ a_pc = "start"
    /\ a_res = Raise("nocall")
    /\ a_res2 = Raise("nocall")

\* format(path, mgm)
CallFormat ==
    /\ a_pc = "start"
    /\ a_res' = format(a_path, a_mgm)
    /\ a_pc' = "format"
    /\ UNCHANGED <<DEFAULT_MGM, a_path, a_mgm, a_res2, nonAddrVars>>

\* split_mgm(path, mgm)
CallSplitMgm ==
    /\ a_pc = "start"
    /\ a_res' = split_mgm(a_path, a_mgm)
    /\ a_pc' = "split_mgm"
    /\ UNCHANGED <<DEFAULT_MGM, a_path, a_mgm, a_res2, nonAddrVars>>

\* split_mgm(format(path, mgm))
CallSplitMgmOfFormatted ==
    /\ a_pc = "format" /\ a_res.exc = "ok"
    /\ a_res2' = split_mgm(a_res.val, NoneStr)
    /\ a_pc' = "format_split_mgm"
    /\ UNCHANGED <<DEFAULT_MGM, a_path, a_mgm, a_res, nonAddrVars>>

\* format(format(path, mgm), mgm)
CallFormatOfFormatted ==
    /\ a_pc = "format" /\ a_res.exc = "ok"
    /\ a_res2' = format(a_res.val, a_mgm)
    /\ a_pc' = "format_format"
    /\ UNCHANGED <<DEFAULT_MGM, a_path, a_mgm, a_res, nonAddrVars>>

\* format(path) after format(path, mgm)
CallFormatNoMgm ==
    /\ a_pc = "format"
    /\ a_res2' = format(a_path, NoneStr)
    /\ a_pc' = "format_nomgm"
    /\ UNCHANGED <<DEFAULT_MGM, a_path, a_mgm, a_res, nonAddrVars>>

NextAddr ==
    \/ CallFormat
    \/ CallSplitMgm
    \/ CallSplitMgmOfFormatted
    \/ CallFormatOfFormatted
    \/ CallFormatNoMgm


-----------------------------------------------------------------------------
(* Claims on the address model *)

\* the part of a server string after its first '://'
HostPart(s) == split1(s, SepProto)[2]

\* a server string of the form protocol://host: it has a '://', does not end
\* in '/', and has no '//' after the first '://'
IsPlainMgm(s) ==
    /\ contains(s, SepProto)
    /\ ~endswith(s, Slash)
    /\ ~contains(HostPart(s), SepLfn)

\* C6 (as stated): for every logical path p starting with '/' and every server
\* s for which format(p, s) succeeds, split_mgm(format(p, s)) = (s, p).
C6_RoundTripAnyServer ==
    (a_pc = "format_split_mgm" /\ startswith(a_path, Slash) /\ a_mgm.some)
        => a_res2 = Ok(<<a_mgm.v, a_path>>)

\* C6 (amended): for every logical path p starting with '/' that holds no
\* '://' and every server s of the form protocol://host (a '://' in it, no
\* trailing '/', no '//' after the first '://'), format(p, s) succeeds and
\* split_mgm(format(p, s)) = (s, p).
C6_RoundTripPlainServer ==
    (startswith(a_path, Slash) /\ ~has_protocol(a_path)
            /\ a_mgm.some /\ IsPlainMgm(a_mgm.v))
        => /\ a_pc = "format" => a_res.exc = "ok"
           /\ a_pc = "format_split_mgm" => a_res2 = Ok(<<a_mgm.v, a_path>>)

C6_Witness ==
    /\ a_pc = "format_split_mgm"
    /\ startswith(a_path, Slash) /\ ~has_protocol(a_path) /\ Len(a_path) > 1
    /\ a_mgm.some /\ IsPlainMgm(a_mgm.v)
    /\ a_res2 = Ok(<<a_mgm.v, a_path>>)

\* the input carries a protocol and a server (both non-empty)
CarriesServer(x) ==
    LET r == split_protocol_pfn(x)
    IN  r.exc = "ok" /\ r.val[1] # <<>> /\ r.val[2] # <<>>

EmbeddedMgm(x) == _split_mgm_pfn(x).val[1]

\* C7: for an input that carries a protocol and a server, format and split_mgm
\* called with an explicit server raise the conflicting-server error whenever
\* the embedded server differs from the passed one; when they are equal the
\* call succeeds, returns what the call without explicit server returns, and
\* format(format(x, s), s) = format(x, s).
C7_ConflictOrIdempotent ==
    (CarriesServer(a_path) /\ a_mgm.some) =>
        IF EmbeddedMgm(a_path) # a_mgm.v
        THEN a_pc \in {"format", "split_mgm"} => a_res = Raise("ConflictingServer")
        ELSE /\ a_pc = "format" => (a_res.exc = "ok" /\ a_res = format(a_path, NoneStr))
             /\ a_pc = "split_mgm" =>
                    (a_res.exc = "ok" /\ a_res = split_mgm(a_path, NoneStr))
             /\ a_pc = "format_nomgm" => a_res2 = a_res
             /\ a_pc = "format_format" => a_res2 = a_res

C7_Witness ==
    /\ CarriesServer(a_path) /\ a_mgm.some
    /\ CarriesServer(a_mgm.v \o SepLfn)
    /\ EmbeddedMgm(a_path) # a_mgm.v
    /\ a_pc = "format" /\ a_res = Raise("ConflictingServer")

C7_WitnessIdempotent ==
    /\ CarriesServer(a_path) /\ a_mgm.some
    /\ EmbeddedMgm(a_path) = a_mgm.v
    /\ a_pc = "format_format" /\ a_res2 = a_res /\ a_res.exc = "ok"

-----------------------------------------------------------------------------
(* The remote storage element as the command line tools show it *)

MaxCalls == 3

\* node 1 is a path /d, node 2 the path /d/e below it
Nodes == {1, 2}
Kinds == {"missing", "dir", "file"}

\* the namespaces a storage element can hold: /d/e exists only in a directory /d
Namespaces == {f \in [Nodes -> Kinds] : f[1] # "dir" => f[2] = "missing"}

Children(fs, node) ==
    IF node = 1
    THEN SelectSeq(<<2, 3>>, LAMBDA k : k \in DOMAIN fs /\ fs[k] # "missing")
    ELSE <<>>

\* the protocols: 'root' selects the xrootd tools, anything else the gfal tools
ProtoRoot == <<"r", "o", "o", "t">>
ProtoSrm == <<"s", "r", "m">>

\* exit codes of the tools
XRD_NOT_FOUND == 54
XRD_NOT_A_DIR == 55
XRD_UNREACHABLE == 51
GFAL_NOT_FOUND == 2
GFAL_UNREACHABLE == 70

\* exit code of `xrdfs <mgm> stat -q IsDir <path>`
ExitXrdIsDir(node) ==
    IF q_fault THEN XRD_UNREACHABLE
    ELSE IF q_fs[node] = "dir" THEN 0
    ELSE IF q_fs[node] = "missing" THEN XRD_NOT_FOUND
    ELSE XRD_NOT_A_DIR

\* exit code of `xrdfs <mgm> stat <path>`
ExitXrdStat(node) ==
    IF q_fault THEN XRD_UNREACHABLE
    ELSE IF q_fs[node] = "missing" THEN XRD_NOT_FOUND ELSE 0

\* exit code of `gfal-stat <path>`
ExitGfalStat(node) ==
    IF q_fault THEN GFAL_UNREACHABLE
    ELSE IF q_fs[node] = "missing" THEN GFAL_NOT_FOUND ELSE 0

\* exit code of `xrdfs <mgm> ls <path>` and of `gfal-ls <path>`
ExitLs(node) ==
    IF q_fault THEN (IF q_proto = ProtoRoot THEN XRD_UNREACHABLE ELSE GFAL_UNREACHABLE)
    ELSE IF q_fs[node] = "dir" THEN 0
    ELSE IF q_proto = ProtoRoot THEN XRD_NOT_FOUND ELSE GFAL_NOT_FOUND

\* run_command(cmd, non_zero_exitcode_ok) without retries, by the exit code of
\* the process: the output, or the exception raised.  With
\* non_zero_exitcode_ok the logging call reads the undefined name return_code.
run_command(exitcode, non_zero_exitcode_ok) ==
    IF exitcode = 0 THEN "output"
    ELSE IF non_zero_exitcode_ok THEN "NameError"
    ELSE "CalledProcessError"

get_exitcode(exitcode) == exitcode

use_xrootd(protocol) == protocol = ProtoRoot

-----------------------------------------------------------------------------
(* Cache *)

CacheKey(ns, node, suffix) == [ns |-> ns, proto |-> q_proto, node |-> node, suffix |-> suffix]

\* FileCache.get(key, None)
FileCacheGet(c, k) == IF k \in DOMAIN c THEN c[k] ELSE PyNone

\* FileCache.__setitem__ and sync
FileCachePut(c, k, v) == [x \in DOMAIN c \cup {k} |-> IF x = k THEN v ELSE c[x]]

read_cache(c, k) == IF ~USE_CACHE THEN PyNone ELSE FileCacheGet(c, k)

write_cache(c, k, v) == IF USE_CACHE THEN FileCachePut(c, k, v) ELSE c

-----------------------------------------------------------------------------
(* Interactions with the SE: the read queries *)

_stat_xrootd(node, not_exist_ok) ==
    LET out == run_command(ExitXrdStat(node), not_exist_ok)
    IN  IF out = "output" THEN Ok(PyInode(node, q_fs[node] = "dir")) ELSE Raise(out)

_stat_gfal(node, not_exist_ok) ==
    LET out == run_command(ExitGfalStat(node), not_exist_ok)
    IN  IF out = "output" THEN Ok(PyInode(node, q_fs[node] = "dir")) ELSE Raise(out)

\* a wrapped query: look up, on a miss (`val is None`) ask the backend, store
Cached(c, k, r) ==
    LET val == read_cache(c, k)
    IN  IF val.t = "None"
        THEN IF r.exc = "ok" THEN Ret(r.val, write_cache(c, k, r.val), 1)
             ELSE Exc(r.exc, c, 1)
        ELSE Ret(val, c, 0)

stat(c, node, not_exist_ok) ==
    Cached(c, CacheKey("seutils-cache.stat", node, ""),
           IF use_xrootd(q_proto) THEN _stat_xrootd(node, not_exist_ok)
           ELSE _stat_gfal(node, not_exist_ok))

_exists_gfal(node) == Ok(PyBool(get_exitcode(ExitGfalStat(node)) = 0))

_exists_xrootd(node) == Ok(PyBool(get_exitcode(ExitXrdStat(node)) = 0))

exists(c, node) ==
    Cached(c, CacheKey("seutils-cache.exists", node, ""),
           IF use_xrootd(q_proto) THEN _exists_xrootd(node) ELSE _exists_gfal(node))

_isdir_gfal(node) ==
    LET statinfo == _stat_gfal(node, TRUE)
    IN  IF statinfo.exc # "ok" THEN statinfo
        ELSE IF statinfo.val.t = "None" THEN Ok(PyBool(FALSE))
        ELSE Ok(PyBool(statinfo.val.isdir))

\* an isdir that takes every existing path for a directory
_isdir_xrootd_exists(node) == Ok(PyBool(get_exitcode(ExitXrdIsDir(node)) # XRD_NOT_FOUND))

_isdir_xrootd(node) == Ok(PyBool(get_exitcode(ExitXrdIsDir(node)) = 0))

isdir(c, node) ==
    Cached(c, CacheKey("seutils-cache.isdir", node, ""),
           IF use_xrootd(q_proto) THEN _isdir_xrootd(node) ELSE _isdir_gfal(node))

_isfile_xrootd(node) == Ok(PyBool(get_exitcode(ExitXrdIsDir(node)) = XRD_NOT_A_DIR))

_isfile_gfal(node) ==
    LET statinfo == _stat_gfal(node, TRUE)
    IN  IF statinfo.exc # "ok" THEN statinfo
        ELSE IF statinfo.val.t = "None" THEN Ok(PyBool(FALSE))
        ELSE Ok(PyBool(~statinfo.val.isdir))

isfile(c, node) ==
    Cached(c, CacheKey("seutils-cache.isfile", node, ""),
           IF use_xrootd(q_proto) THEN _isfile_xrootd(node) ELSE _isfile_gfal(node))

_is_file_or_dir_gfal(node) ==
    LET statinfo == _stat_gfal(node, TRUE)
    IN  IF statinfo.exc # "ok" THEN statinfo
        ELSE IF statinfo.val.t = "None" THEN Ok(PyInt(0))
        ELSE IF statinfo.val.isdir THEN Ok(PyInt(1))
        ELSE Ok(PyInt(2))

_is_file_or_dir_xrootd(node) ==
    LET status == get_exitcode(ExitXrdIsDir(node))
    IN  IF status = 0 THEN Ok(PyInt(1))
        ELSE IF status = XRD_NOT_FOUND THEN Ok(PyInt(0))
        ELSE IF status = XRD_NOT_A_DIR THEN Ok(PyInt(2))
        ELSE Raise("RuntimeError")

is_file_or_dir(c, node) ==
    Cached(c, CacheKey("seutils-cache.isfileordir", node, ""),
           IF use_xrootd(q_proto) THEN _is_file_or_dir_xrootd(node)
           ELSE _is_file_or_dir_gfal(node))

\* the entries `ls` prints, as paths or (with -l) as Inodes
Listing(node, withstat) ==
    LET ch == Children(q_fs, node)
    IN  [i \in 1..Len(ch) |->
            IF withstat THEN PyInode(ch[i], q_fs[ch[i]] = "dir") ELSE PyInt(ch[i])]

_listdir_xrootd(node, withstat) ==
    LET out == run_command(ExitLs(node), FALSE)
    IN  IF out = "output" THEN Ok(PyList(Listing(node, withstat))) ELSE Raise(out)

_listdir_gfal(node, withstat) ==
    LET out == run_command(ExitLs(node), FALSE)
    IN  IF out = "output" THEN Ok(PyList(Listing(node, withstat))) ELSE Raise(out)

\* a key of listdir that leaves the flag out
StatSuffixNone(withstat) == ""
\* '___stat{}'.format(stat)
StatSuffix(withstat) == IF withstat THEN "___statTrue" ELSE "___statFalse"

\* `if not val`: what listdir takes for a miss
listdir_miss(val) == Falsy(val)

listdir(c, node, withstat, assume_directory) ==
    LET key == CacheKey("seutils-cache.listdir", node, StatSuffix(withstat))
        val == read_cache(c, key)
    IN  IF ~listdir_miss(val) THEN Ret(val, c, 0)
        ELSE LET d == IF assume_directory THEN Ret(PyBool(TRUE), c, 0) ELSE isdir(c, node)
             IN  IF d.exc # "ok" THEN d
                 ELSE IF ~d.val.b THEN Exc("NotADirectory", d.c, d.n)
                 ELSE LET r == IF use_xrootd(q_proto) THEN _listdir_xrootd(node, withstat)
                               ELSE _listdir_gfal(node, withstat)
                      IN  IF r.exc # "ok" THEN Exc(r.exc, d.c, d.n + 1)
                          ELSE Ret(r.val, write_cache(d.c, key, r.val), d.n + 1)

-----------------------------------------------------------------------------
(* SpecCache: read queries against a storage element that does not change *)

NoCall ==
    [op |-> "none", node |-> 0, flag |-> FALSE, assume |-> FALSE, cache_on |-> FALSE,
     exc |-> "nocall", val |-> PyNone, spawned |-> 0]

EmptyCache == [k \in {} |-> PyNone]

InitCache ==
    /\ USE_CACHE = FALSE
    /\ q_cache = EmptyCache
    /\ q_fs \in Namespaces
    /\ q_proto \in {ProtoRoot, ProtoSrm}
    /\ q_fault \in BOOLEAN
    /\ q_ncalls = 0
    /\ q_last = NoCall
    /\ q_class = [n \in Nodes |-> -1]

\* the bookkeeping of one query: r is the outcome of the call
Query(op, node, flag, assume, r) ==
    /\ q_ncalls < MaxCalls
    /\ q_ncalls' = q_ncalls + 1
    /\ q_cache' = r.c
    /\ q_last' = [op |-> op, node |-> node, flag |-> flag, assume |-> assume,
                  cache_on |-> USE_CACHE, exc |-> r.exc, val |-> r.val, spawned |-> r.n]
    /\ q_class' = IF op = "is_file_or_dir" /\ r.exc = "ok"
                  THEN [q_class EXCEPT ![node] = r.val.i] ELSE q_class
    /\ UNCHANGED <<USE_CACHE, q_fs, q_proto, q_fault, nonCacheVars>>

use_cache ==
    /\ \E flag \in BOOLEAN : USE_CACHE' = flag /\ flag # USE_CACHE
    /\ UNCHANGED <<q_cache, q_fs, q_proto, q_fault, q_ncalls, q_last, q_class, nonCacheVars>>

CallStat ==
    \E node \in Nodes, not_exist_ok \in BOOLEAN :
        Query("stat", node, not_exist_ok, FALSE, stat(q_cache, node, not_exist_ok))

CallExists ==
    \E node \in Nodes : Query("exists", node, FALSE, FALSE, exists(q_cache, node))

CallIsdir ==
    \E node \in Nodes : Query("isdir", node, FALSE, FALSE, isdir(q_cache, node))

CallIsfile ==
    \E node \in Nodes : Query("isfile", node, FALSE, FALSE, isfile(q_cache, node))

CallIsFileOrDir ==
    \E node \in Nodes :
        Query("is_file_or_dir", node, FALSE, FALSE, is_file_or_dir(q_cache, node))

\* assume_directory is passed for directories only
CallListdir ==
    \E node \in Nodes, withstat \in BOOLEAN, assume_directory \in BOOLEAN :
        /\ assume_directory => q_fs[node] = "dir"
        /\ Query("listdir", node, withstat, assume_directory,
                 listdir(q_cache, node, withstat, assume_directory))

NextCache ==
    \/ use_cache
    \/ CallStat
    \/ CallExists
    \/ CallIsdir
    \/ CallIsfile
    \/ CallIsFileOrDir
    \/ CallListdir

-----------------------------------------------------------------------------
(* Claims on the read queries *)

SameCall(x, y) ==
    x.op = y.op /\ x.node = y.node /\ x.flag = y.flag /\ x.assume = y.assume

\* C1: with caching enabled and no cache write in between, once a read query
\* has returned a value v, the next identical call returns v and spawns no
\* backend command, whatever v is.
C1_CacheTransparency ==
    [][(/\ q_ncalls' = q_ncalls + 1
        /\ q_last.cache_on /\ USE_CACHE
        /\ q_last.exc = "ok"
        /\ SameCall(q_last, q_last'))
       => (q_last'.exc = "ok" /\ q_last'.val = q_last.val /\ q_last'.spawned = 0)]_vars

\* C5: if is_file_or_dir classified an address as a directory (1), listdir on
\* it (without assume_directory) succeeds; if it classified it as a file (2)
\* or as missing (0), listdir raises the not-a-directory error.
C5_ClassifyAgreesWithListdir ==
    (q_last.op = "listdir" /\ ~q_last.assume) =>
        /\ q_class[q_last.node] = 1 => q_last.exc = "ok"
        /\ q_class[q_last.node] \in {0, 2} => q_last.exc = "NotADirectory"

C5_Witness ==
    /\ q_last.op = "listdir" /\ ~q_last.assume /\ q_last.cache_on
    /\ q_class[q_last.node] = 2
    /\ q_last.exc = "NotADirectory"


\* the exit code of the stat command of the last query, and the code by which
\* that tool reports a path that does not exist
StatExit(node) == IF use_xrootd(q_proto) THEN ExitXrdStat(node) ELSE ExitGfalStat(node)
NoSuchPath == IF use_xrootd(q_proto) THEN XRD_NOT_FOUND ELSE GFAL_NOT_FOUND

\* C11: a stat that asks its backend returns None, raising nothing, when
\* not_exist_ok is set and the tool exits with its no-such-path code; it
\* raises when not_exist_ok is set and the tool exits with another non-zero
\* code, and on every non-zero exit code when not_exist_ok is not set.
C11_StatNotFoundIsNone ==
    (q_last.op = "stat" /\ q_last.spawned > 0 /\ StatExit(q_last.node) # 0) =>
        IF q_last.flag /\ StatExit(q_last.node) = NoSuchPath
        THEN q_last.exc = "ok" /\ q_last.val = PyNone
        ELSE q_last.exc # "ok"

Classifications == {"exists", "isdir", "isfile", "is_file_or_dir"}
\* the exit code of the command a classification query of the xrootd tools runs
ClassifyExit(op, node) == IF op = "exists" THEN ExitXrdStat(node) ELSE ExitXrdIsDir(node)
\* the answers of the query kinds: a directory (or, for exists, a path that
\* is there), an absent path, a file
AnswerPresent(op) ==
    CASE op = "is_file_or_dir" -> PyInt(1)
      [] op = "isfile" -> PyBool(FALSE)
      [] OTHER -> PyBool(TRUE)
AnswerAbsent(op) == IF op = "is_file_or_dir" THEN PyInt(0) ELSE PyBool(FALSE)
AnswerFile(op) ==
    CASE op = "is_file_or_dir" -> PyInt(2)
      [] op = "isfile" -> PyBool(TRUE)
      [] OTHER -> PyBool(FALSE)
Classified == use_xrootd(q_proto) /\ q_last.op \in Classifications

\* C26: for the xrootd tools every classification query (is_file_or_dir,
\* isdir, isfile, exists) reads the exit code the same way: 0 is success,
\* 54 an absent path, 55 a path that is a file, and every other code (host
\* unreachable, permission denied) a command failure, never an answer
\* 'missing' or False.
C26_ExitCodesReadAlike ==
    Classified =>
        LET status == ClassifyExit(q_last.op, q_last.node)
        IN  CASE status = 0 -> q_last.exc = "ok" /\ q_last.val = AnswerPresent(q_last.op)
              [] status = XRD_NOT_FOUND ->
                    q_last.exc = "ok" /\ q_last.val = AnswerAbsent(q_last.op)
              [] status = XRD_NOT_A_DIR ->
                    q_last.exc = "ok" /\ q_last.val = AnswerFile(q_last.op)
              [] OTHER -> q_last.exc # "ok"

\* the same while the host answers
C26_ExitCodesReadAlikeReachable == ~q_fault => C26_ExitCodesReadAlike

\* the type of the values a query kind returns
ValueType(op) ==
    CASE op \in {"exists", "isdir", "isfile"} -> {"bool"}
      [] op = "is_file_or_dir" -> {"int"}
      [] op = "stat" -> {"Inode"}
      [] op = "listdir" -> {"list"}
\* the query kind that owns a store
Owner(ns) ==
    CASE ns = "seutils-cache.stat" -> "stat"
      [] ns = "seutils-cache.exists" -> "exists"
      [] ns = "seutils-cache.isdir" -> "isdir"
      [] ns = "seutils-cache.isfile" -> "isfile"
      [] ns = "seutils-cache.isfileordir" -> "is_file_or_dir"
      [] ns = "seutils-cache.listdir" -> "listdir"
\* a stored value is one its own query kind has computed for the key
EntryFits(k, v) ==
    /\ v.t \in ValueType(Owner(k.ns))
    /\ k.ns = "seutils-cache.listdir" =>
          /\ k.suffix \in {"___statTrue", "___statFalse"}
          /\ v = PyList(Listing(k.node, k.suffix = "___statTrue"))
    /\ k.ns # "seutils-cache.listdir" => k.suffix = ""
FromCache == q_last.cache_on /\ q_last.exc = "ok" /\ q_last.spawned = 0

\* C28: in every cache state a stored value is only returned to the query
\* kind that stored it, for the same address: stat, exists, isdir, isfile,
\* is_file_or_dir and listdir keep separate stores, and a listing stored
\* with stat=True is never returned to a listdir with stat=False on the same
\* directory, nor the reverse.
C28_StoresNeverCollide ==
    /\ \A k \in DOMAIN q_cache : EntryFits(k, q_cache[k])
    /\ (q_last.op # "none" /\ FromCache) =>
          /\ q_last.val.t \in ValueType(q_last.op)
          /\ q_last.op = "listdir" => q_last.val = PyList(Listing(q_last.node, q_last.flag))

\* a listing with stat=True is answered from the cache while the listing of
\* the same directory with stat=False is stored too, and differs
C28_Witness ==
    /\ q_last.op = "listdir" /\ q_last.flag /\ FromCache
    /\ \E k1, k2 \in DOMAIN q_cache :
          /\ k1.ns = "seutils-cache.listdir" /\ k2.ns = "seutils-cache.listdir"
          /\ k1.node = q_last.node /\ k2.node = q_last.node
          /\ q_cache[k1] # q_cache[k2]

-----------------------------------------------------------------------------
(* Removal and creation on the storage element *)

\* the logical paths of the storage element: /a, and /a/b below it
LfnDir == <<"/", "a">>
LfnSub == <<"/", "a", "/", "b">>
RmLfns == {LfnDir, LfnSub}

\* its namespaces: /a/b exists only in a directory /a
RmNamespaces == {f \in [RmLfns -> Kinds] : f[LfnDir] # "dir" => f[LfnSub] = "missing"}

Below(lfn) == {x \in RmLfns : startswith(x, lfn \o Slash)}
Above(lfn) == {x \in RmLfns : lfn \in Below(x)}

\* the addresses passed to rm and mkdir: protocol://h//<lfn>
RmHost == <<"h">>
RmPfn(protocol, lfn) == protocol \o SepProto \o RmHost \o Slash \o lfn
RmPaths == {RmPfn(p, l) : p \in {ProtoRoot, ProtoSrm}, l \in RmLfns}
XrdPaths == {RmPfn(ProtoRoot, l) : l \in RmLfns}

\* the entries put on the blacklist and the whitelist
Star == <<"*">>
RmPatterns == {LfnDir, LfnDir \o Slash \o Star, LfnSub}

\* a command line handed to run_command or get_exitcode
Cmd(tool, recursive, lfn) == [tool |-> tool, recursive |-> recursive, lfn |-> lfn]
RemovalTools == {"eos rm", "gfal-rm", "xrdfs rm", "xrdfs rmdir"}

\* the effect of a tool: its exit code and the namespace it leaves
ToolExit(code, fs) == [code |-> code, fs |-> fs]
Removed(fs, lfn) ==
    [x \in RmLfns |-> IF x = lfn \/ x \in Below(lfn) THEN "missing" ELSE fs[x]]

\* `eos <mgm> rm [-r] <lfn>` and `gfal-rm [-r] <path>`
ToolRm(fs, lfn, recursive) ==
    IF fs[lfn] = "missing" \/ (fs[lfn] = "dir" /\ ~recursive)
    THEN ToolExit(1, fs)
    ELSE ToolExit(0, Removed(fs, lfn))

\* `xrdfs <mgm> rm <lfn>`: files only
ToolXrdfsRm(fs, lfn) ==
    IF fs[lfn] = "file" THEN ToolExit(0, Removed(fs, lfn)) ELSE ToolExit(1, fs)

\* `xrdfs <mgm> rmdir <lfn>`: empty directories only
ToolXrdfsRmdir(fs, lfn) ==
    IF fs[lfn] = "dir" /\ \A x \in Below(lfn) : fs[x] = "missing"
    THEN ToolExit(0, Removed(fs, lfn))
    ELSE ToolExit(1, fs)

\* `xrdfs <mgm> mkdir -p <lfn>` and `gfal-mkdir -p <path>`
ToolMkdir(fs, lfn) ==
    IF \E x \in Above(lfn) \cup {lfn} : fs[x] = "file"
    THEN ToolExit(1, fs)
    ELSE ToolExit(0, [x \in RmLfns |-> IF x \in Above(lfn) \cup {lfn} THEN "dir" ELSE fs[x]])

\* exit code of `xrdfs <mgm> stat -q IsDir <lfn>` on a reachable host
ExitIsDir(fs, lfn) ==
    IF fs[lfn] = "dir" THEN 0
    ELSE IF fs[lfn] = "missing" THEN XRD_NOT_FOUND
    ELSE XRD_NOT_A_DIR

\* the one element of a singleton: Only({e(x) : x \in {v}}) is e with x bound to v
Only(S) == CHOOSE x \in S : TRUE

\* the outcome of a removal or creation: the exception raised ("ok": none), the
\* tool set it reached, the command lines it issued, and the namespace it leaves
RmOut(exc, backend, cmds, fs) == [exc |-> exc, backend |-> backend, cmds |-> cmds, fs |-> fs]

\* run_command(cmd) for a tool with effect t
RunTool(backend, cmds, tool) ==
    Only({RmOut(IF run_command(t.code, FALSE) = "output" THEN "ok"
                ELSE run_command(t.code, FALSE),
                backend, cmds, t.fs) : t \in {tool}})

get_protocol(path) ==
    Only({IF f.exc # "ok" THEN f ELSE Ok(split1(f.val, SepProto)[1]) :
          f \in {format(path, NoneStr)}})

use_xrootd_path(path) == use_xrootd(get_protocol(path).val)

_rm_gfal(fs, path, recursive) ==
    Only({RunTool("gfal", <<Cmd("gfal-rm", recursive, lfn)>>, ToolRm(fs, lfn, recursive)) :
          lfn \in {split_mgm(path, NoneStr).val[2]}})

_rm_xrootd(fs, path, recursive) ==
    Only({
        IF s.exc # "ok" THEN RmOut(s.exc, "xrdfs", <<>>, fs)
        ELSE LET lfn == s.val[2]
                 query == Cmd("xrdfs stat -q IsDir", FALSE, lfn)
                 isdir_ == get_exitcode(ExitIsDir(fs, lfn)) = 0
             IN  IF isdir_ /\ ~recursive
                 THEN RmOut("RefusedNonRecursive", "xrdfs", <<query>>, fs)
                 ELSE IF isdir_
                 THEN RunTool("xrdfs", <<query, Cmd("xrdfs rmdir", FALSE, lfn)>>,
                              ToolXrdfsRmdir(fs, lfn))
                 ELSE RunTool("xrdfs", <<query, Cmd("xrdfs rm", FALSE, lfn)>>,
                              ToolXrdfsRm(fs, lfn))
        : s \in {split_mgm(path, NoneStr)}})

_rm_eos(fs, path, recursive) ==
    Only({
        IF s.exc # "ok" THEN RmOut(s.exc, "eos", <<>>, fs)
        ELSE LET lfn == s.val[2]
                 query == Cmd("xrdfs stat -q IsDir", FALSE, lfn)
                 isdir_ == get_exitcode(ExitIsDir(fs, lfn)) = 0
             IN  IF isdir_ /\ ~recursive
                 THEN RmOut("RefusedNonRecursive", "eos", <<query>>, fs)
                 ELSE RunTool("eos", <<query, Cmd("eos rm", recursive, lfn)>>,
                              ToolRm(fs, lfn, recursive))
        : s \in {split_mgm(path, NoneStr)}})

\* rm(path, recursive); eos is what `distutils.spawn.find_executable('eos')`
\* gives after a bare `import distutils`: "found", "absent", or "unloaded" when
\* the submodule distutils.spawn has not been imported by anything before
rm(fs, eos, path, recursive) ==
    Only({
        IF f.exc # "ok" THEN RmOut(f.exc, "none", <<>>, fs)
        ELSE IF eos = "unloaded" THEN RmOut("AttributeError", "none", <<>>, fs)
        ELSE IF eos = "found" /\ use_xrootd_path(f.val) THEN _rm_eos(fs, f.val, recursive)
        ELSE _rm_gfal(fs, f.val, recursive)
        : f \in {format(path, NoneStr)}})

_mkdir_gfal(fs, directory) ==
    Only({RunTool("gfal", <<Cmd("gfal-mkdir -p", FALSE, lfn)>>, ToolMkdir(fs, lfn)) :
          lfn \in {split_mgm(directory, NoneStr).val[2]}})

_mkdir_xrootd(fs, directory) ==
    Only({
        IF s.exc # "ok" THEN RmOut(s.exc, "xrdfs", <<>>, fs)
        ELSE RunTool("xrdfs", <<Cmd("xrdfs mkdir -p", FALSE, s.val[2])>>,
                     ToolMkdir(fs, s.val[2]))
        : s \in {split_mgm(directory, NoneStr)}})

mkdir(fs, directory) ==
    Only({
        IF f.exc # "ok" THEN RmOut(f.exc, "none", <<>>, fs)
        ELSE IF use_xrootd_path(f.val) THEN _mkdir_xrootd(fs, f.val)
        ELSE _mkdir_gfal(fs, f.val)
        : f \in {format(directory, NoneStr)}})

\* The safety guard.  An entry ending in '*' matches every path that starts
\* with what precedes the '*'; any other entry matches the path itself and
\* the paths below it.
PatternMatches(pattern, lfn) ==
    IF endswith(pattern, Star)
    THEN startswith(lfn, SubSeq(pattern, 1, Len(pattern) - 1))
    ELSE lfn = pattern \/ startswith(lfn, pattern \o Slash)

Blacklisted(lfn) == \E p \in RM_BLACKLIST : PatternMatches(p, lfn)
Whitelisted(lfn) == \E p \in RM_WHITELIST : PatternMatches(p, lfn)

\* rm_safety: the whitelist is consulted first, then the blacklist.  The
\* guard of a removal does not look at `recursive`: run_rm_safety_test
\* expects RmSafetyTrigger from impl.rm(path) with the default recursive=False.
rm_safety(lfn) ==
    IF Whitelisted(lfn) THEN "pass"
    ELSE IF Blacklisted(lfn) THEN "RmSafetyTrigger"
    ELSE "pass"

\* XrdImplementation.rm, wrapped in rm_safety
XrdImplementation_rm(fs, path, recursive) ==
    Only({
        IF s.exc # "ok" THEN RmOut(s.exc, "none", <<>>, fs)
        ELSE IF rm_safety(s.val[2]) # "pass" THEN RmOut(rm_safety(s.val[2]), "none", <<>>, fs)
        ELSE _rm_xrootd(fs, path, recursive)
        : s \in {split_mgm(path, NoneStr)}})

-----------------------------------------------------------------------------
(* SpecRm: removals and creations under a blacklist and a whitelist *)

MaxBlacklist == 2
MaxWhitelist == 1

LfnOf(path) == split_mgm(path, NoneStr).val[2]

NoRm ==
    [op |-> "none", impl |-> "none", path |-> <<>>, recursive |-> FALSE,
     kind |-> "missing", exc |-> "ok", backend |-> "none", cmds |-> <<>>,
     changed |-> FALSE]

InitRm ==
    /\ RM_BLACKLIST = {}
    /\ RM_WHITELIST = {}
    /\ r_fs \in RmNamespaces
    /\ r_eos \in {"found", "absent", "unloaded"}
    /\ r_last = NoRm

\* a call of a removal or creation entry point with outcome out
Mutation(op, impl, path, recursive, outcome) ==
    \E out \in {outcome} :
    /\ r_last' = [op |-> op, impl |-> impl, path |-> path, recursive |-> recursive,
                  kind |-> r_fs[LfnOf(path)], exc |-> out.exc,
                  backend |-> out.backend, cmds |-> out.cmds,
                  changed |-> out.fs # r_fs]
    /\ r_fs' = out.fs
    /\ UNCHANGED <<RM_BLACKLIST, RM_WHITELIST, r_eos, nonRmVars>>

CallRm ==
    \E path \in RmPaths, recursive \in BOOLEAN :
        Mutation("rm", "rm", path, recursive, rm(r_fs, r_eos, path, recursive))

CallRmXrootd ==
    \E path \in XrdPaths, recursive \in BOOLEAN :
        Mutation("rm", "_rm_xrootd", path, recursive, _rm_xrootd(r_fs, path, recursive))

CallXrdImplementationRm ==
    \E path \in XrdPaths, recursive \in BOOLEAN :
        Mutation("rm", "XrdImplementation.rm", path, recursive,
                 XrdImplementation_rm(r_fs, path, recursive))

CallMkdir ==
    \E path \in RmPaths :
        Mutation("mkdir", "mkdir", path, FALSE, mkdir(r_fs, path))

\* seutils.RM_BLACKLIST.extend([p])
ExtendBlacklist ==
    \E p \in RmPatterns \ RM_BLACKLIST :
        /\ Cardinality(RM_BLACKLIST) < MaxBlacklist
        /\ RM_BLACKLIST' = RM_BLACKLIST \cup {p}
        /\ r_last' = NoRm
        /\ UNCHANGED <<RM_WHITELIST, r_fs, r_eos, nonRmVars>>

\* seutils.RM_WHITELIST = [...]
SetWhitelist ==
    \E w \in SUBSET RmPatterns :
        /\ Cardinality(w) <= MaxWhitelist
        /\ w # RM_WHITELIST
        /\ RM_WHITELIST' = w
        /\ r_last' = NoRm
        /\ UNCHANGED <<RM_BLACKLIST, r_fs, r_eos, nonRmVars>>

NextRm ==
    \/ CallRm
    \/ CallRmXrootd
    \/ CallXrdImplementationRm
    \/ CallMkdir
    \/ ExtendBlacklist
    \/ SetWhitelist

-----------------------------------------------------------------------------
(* Claims about removal *)

GuardRefuses(lfn) == Blacklisted(lfn) /\ ~Whitelisted(lfn)

IssuedRemoval(cmds) == \E i \in 1..Len(cmds) : cmds[i].tool \in RemovalTools
IssuedRecursiveRemoval(cmds) ==
    \E i \in 1..Len(cmds) : cmds[i].tool \in RemovalTools /\ cmds[i].recursive

\* C8: the guard of a removal fails with RmSafetyTrigger exactly when the
\* removal is recursive and its logical path matches some blacklist pattern
\* and no whitelist pattern.
C8_TriggerIffRecursiveAndBlacklisted ==
    (r_last.op = "rm" /\ r_last.impl = "XrdImplementation.rm") =>
        (r_last.exc = "RmSafetyTrigger"
            <=> (r_last.recursive /\ GuardRefuses(LfnOf(r_last.path))))

\* C9: in every execution of rm the guard comes before any external command:
\* removing a blacklisted, non-whitelisted path raises RmSafetyTrigger with
\* no command issued and the namespace unchanged, and no recursive removal
\* command is issued for a path the guard has not passed.
C9_GuardBeforeAnyCommand ==
    (r_last.op = "rm" /\ r_last.impl \in {"rm", "XrdImplementation.rm"}) =>
        /\ GuardRefuses(LfnOf(r_last.path)) =>
              /\ r_last.exc = "RmSafetyTrigger"
              /\ r_last.cmds = <<>>
              /\ ~r_last.changed
        /\ IssuedRecursiveRemoval(r_last.cmds) => ~GuardRefuses(LfnOf(r_last.path))

\* C10: whichever tool set a removal reaches, a non-recursive removal of a
\* directory fails with the refused-non-recursive error, issues no removal
\* command and leaves the namespace unchanged.
C10_DirectoryNeedsRecursive ==
    (r_last.op = "rm" /\ r_last.backend # "none"
        /\ ~r_last.recursive /\ r_last.kind = "dir") =>
        /\ r_last.exc = "RefusedNonRecursive"
        /\ ~IssuedRemoval(r_last.cmds)
        /\ ~r_last.changed

-----------------------------------------------------------------------------
(* The bounded walk *)

DEFAULT_MAX_RECURSION_DEPTH == 20
SmallBudget == 3
MaxOver == 1
MaxPrunes == 1

\* the two walk generators that are consumed interleaved
Walkers == {1, 2}

\* The directory tree of the storage element: directories 1..w_n, directory 1
\* on top, in one of three shapes.  Every odd directory also holds two files.
Shapes == {"chain", "star", "heap"}
Parent(k) ==
    IF w_shape = "chain" THEN k - 1
    ELSE IF w_shape = "star" THEN 1
    ELSE k \div 2

\* a file next to directory 1
FileNode == 0

\* an entry of a listing: an Inode with its basename
Inode(name, is_dir) == [name |-> name, isdir |-> is_dir]

\* ls(path, stat=True, assume_directory=True) on directory d: the entries as
\* the tool prints them, which is not in the order of their basenames
Descending == [i \in 1..w_n |-> w_n + 1 - i]
ls(d) ==
    LET dirs == SelectSeq(Descending, LAMBDA k : k >= 2 /\ Parent(k) = d)
        entries == [i \in 1..Len(dirs) |-> Inode(dirs[i], TRUE)]
    IN  IF d % 2 = 1
        THEN <<Inode(2 * w_n + d, FALSE)>> \o entries \o <<Inode(w_n + d, FALSE)>>
        ELSE entries

\* list.sort(key=lambda c: c.basename)
RECURSIVE InsertSorted(_, _)
InsertSorted(s, e) ==
    IF s = <<>> THEN <<e>>
    ELSE IF e.name < Head(s).name THEN <<e>> \o s
    ELSE <<Head(s)>> \o InsertSorted(Tail(s), e)

\* a list left in the order of the listing
Unsorted(s) == s

RECURSIVE SortByBasename(_)
SortByBasename(s) ==
    IF s = <<>> THEN <<>> ELSE InsertSorted(SortByBasename(Tail(s)), Head(s))

Names(s) == [i \in 1..Len(s) |-> s[i].name]

\* the test that opens _walk, with `>` in place of `>=`
budget_spent_late(i) == i > MAX_RECURSION_DEPTH

\* the test that opens _walk
budget_spent(i) == i >= MAX_RECURSION_DEPTH

\* The frame of one _walk call suspended at or after its yield: the list
\* `directories` it iterates over, the list `dirnames` it has yielded when
\* stat is false, the files it has yielded, and how many of its directories
\* it has descended into.
Frame(path, directories, dirnames, files, idx) ==
    [path |-> path, directories |-> directories, dirnames |-> dirnames,
     files |-> files, idx |-> idx]

\* _walk(path, stat, counter) from its call to its yield
_walk(stack, path, stat_, i) ==
    IF budget_spent(i)
    THEN [pc |-> "raised", err |-> "RecursionBudgetExceeded", stack |-> <<>>,
          i |-> i, listed |-> {}]
    ELSE LET contents == ls(path)
             files == SortByBasename(SelectSeq(contents, LAMBDA c : ~c.isdir))
             directories == SortByBasename(SelectSeq(contents, LAMBDA c : c.isdir))
         IN  [pc |-> "suspended", err |-> "none",
              stack |-> Append(stack,
                          Frame(path, Names(directories),
                                IF stat_ THEN <<>> ELSE Names(directories),
                                Names(files), 0)),
              i |-> i + 1, listed |-> {path}]

\* a _walk that does not look at dirnames again after its yield
KeepDirectories(frame) == frame

\* `directories = [ d for d in directories if d.path in dirnames ]`
FilterByDirnames(frame) ==
    [frame EXCEPT !.directories =
                      SelectSeq(frame.directories,
                                LAMBDA d : \E j \in 1..Len(frame.dirnames) : frame.dirnames[j] = d),
                  !.dirnames = <<>>]

\* the frames whose loop over `directories` is finished return
RECURSIVE Unwind(_)
Unwind(stack) ==
    IF stack = <<>> THEN <<>>
    ELSE IF stack[Len(stack)].idx < Len(stack[Len(stack)].directories) THEN stack
    ELSE Unwind(SubSeq(stack, 1, Len(stack) - 1))

\* next() on a suspended generator: from the yield to the next yield, to the
\* budget error or to the end of the walk
Resume(stack, stat_, i) ==
    LET top == stack[Len(stack)]
        filtered == IF ~stat_ /\ top.idx = 0
                    THEN [stack EXCEPT ![Len(stack)] = FilterByDirnames(top)]
                    ELSE stack
        rest == Unwind(filtered)
    IN  IF rest = <<>>
        THEN [pc |-> "done", err |-> "none", stack |-> <<>>, i |-> i, listed |-> {}]
        ELSE LET f == rest[Len(rest)]
             IN  _walk([rest EXCEPT ![Len(rest)].idx = f.idx + 1],
                       f.directories[f.idx + 1], stat_, i)

\* is_file_or_dir(path) for the root of a walk
RootStatus(root) == IF root = FileNode THEN 2 ELSE 1

\* next() on a generator that has not started: walk(path, stat) up to the
\* first yield of _walk, with a Counter of its own
Start(root, stat_) ==
    IF RootStatus(root) # 1
    THEN [pc |-> "raised", err |-> "NotADirectory", stack |-> <<>>, i |-> 0, listed |-> {}]
    ELSE _walk(<<>>, root, stat_, 0)

-----------------------------------------------------------------------------
(* SpecWalk: two walks over one tree, consumed interleaved, with pruning *)

InitWalk ==
    /\ MAX_RECURSION_DEPTH \in {SmallBudget, DEFAULT_MAX_RECURSION_DEPTH}
    /\ w_shape \in Shapes
    /\ w_n \in {MAX_RECURSION_DEPTH - 1, MAX_RECURSION_DEPTH, MAX_RECURSION_DEPTH + MaxOver}
    /\ w_root \in {r \in [Walkers -> {FileNode, 1, 2}] : r[1] # 2 /\ r[2] # FileNode}
    /\ w_stat \in {f \in [Walkers -> BOOLEAN] : f[1] # f[2]}
    /\ w_pc = [w \in Walkers |-> "created"]
    /\ w_err = [w \in Walkers |-> "none"]
    /\ w_stack = [w \in Walkers |-> <<>>]
    /\ w_counter = [w \in Walkers |-> 0]
    /\ w_requests = [w \in Walkers |-> 0]
    /\ w_listed = [w \in Walkers |-> {}]
    /\ w_pruned = [w \in Walkers |-> {}]
    /\ w_prunes = 0

treeVars == <<MAX_RECURSION_DEPTH, w_shape, w_n, w_root, w_stat>>

\* what a step of generator w leaves behind
Advance(w, r) ==
    /\ w_pc' = [w_pc EXCEPT ![w] = r.pc]
    /\ w_err' = [w_err EXCEPT ![w] = r.err]
    /\ w_stack' = [w_stack EXCEPT ![w] = r.stack]
    /\ w_counter' = [w_counter EXCEPT ![w] = r.i]
    /\ w_requests' = [w_requests EXCEPT ![w] = @ + Cardinality(r.listed)]
    /\ w_listed' = [w_listed EXCEPT ![w] = @ \cup r.listed]
    /\ UNCHANGED <<treeVars, w_pruned, w_prunes, nonWalkVars>>

\* the first next() on a generator
WalkStart(w) ==
    /\ w_pc[w] = "created"
    /\ \E r \in {Start(w_root[w], w_stat[w])} : Advance(w, r)

\* a later next() on a generator
WalkNext(w) ==
    /\ w_pc[w] = "suspended"
    /\ \E r \in {Resume(w_stack[w], w_stat[w], w_counter[w])} : Advance(w, r)

RemoveAt(s, pos) == SubSeq(s, 1, pos - 1) \o SubSeq(s, pos + 1, Len(s))

\* the consumer removes an entry from the list of directories just yielded
Prune(w) ==
    /\ w_pc[w] = "suspended"
    /\ w_prunes < MaxPrunes
    /\ LET top == w_stack[w][Len(w_stack[w])]
           yielded == IF w_stat[w] THEN top.directories ELSE top.dirnames
       IN  /\ top.idx = 0
           /\ yielded # <<>>
           /\ \E pos \in {1, Len(yielded)} :
                /\ w_stack' = [w_stack EXCEPT ![w][Len(w_stack[w])] =
                                  IF w_stat[w]
                                  THEN [top EXCEPT !.directories = RemoveAt(yielded, pos)]
                                  ELSE [top EXCEPT !.dirnames = RemoveAt(yielded, pos)]]
                /\ w_pruned' = [w_pruned EXCEPT ![w] = @ \cup {yielded[pos]}]
    /\ w_prunes' = w_prunes + 1
    /\ UNCHANGED <<treeVars, w_pc, w_err, w_counter, w_requests, w_listed, nonWalkVars>>

NextWalk ==
    \E w \in Walkers :
        \/ WalkStart(w)
        \/ WalkNext(w)
        \/ Prune(w)

-----------------------------------------------------------------------------
(* Claims about the walk *)

\* d lies in the tree below the root of walk w, as pruned by its consumer
RECURSIVE InPrunedTree(_, _)
InPrunedTree(w, d) ==
    IF d = w_root[w] THEN TRUE
    ELSE IF d <= 1 \/ d \in w_pruned[w] THEN FALSE
    ELSE InPrunedTree(w, Parent(d))

ToList(w) == {d \in 1..w_n : InPrunedTree(w, d)}

\* C2: each walk, also when interleaved with another, issues at most
\* MAX_RECURSION_DEPTH listing requests; it ends in the recursion-budget
\* error only if its pruned tree holds more directories than the budget, and
\* it ends normally only if the tree holds at most budget-many directories,
\* all of which it has then listed.
C2_WalkWithinBudget ==
    \A w \in Walkers :
        /\ w_requests[w] <= MAX_RECURSION_DEPTH
        /\ Cardinality(w_listed[w]) = w_requests[w]
        /\ (w_pc[w] = "raised" /\ w_root[w] # FileNode) =>
              /\ w_err[w] = "RecursionBudgetExceeded"
              /\ Cardinality(ToList(w)) > MAX_RECURSION_DEPTH
              /\ w_requests[w] = MAX_RECURSION_DEPTH
        /\ w_pc[w] = "done" =>
              /\ Cardinality(ToList(w)) <= MAX_RECURSION_DEPTH
              /\ w_listed[w] = ToList(w)

\* one walk has listed exactly budget-many directories and ended normally,
\* while the other one, over one directory more, ended in the budget error
C2_Witness ==
    /\ MAX_RECURSION_DEPTH = DEFAULT_MAX_RECURSION_DEPTH
    /\ w_pc[2] = "done" /\ w_requests[2] = MAX_RECURSION_DEPTH
    /\ w_pc[1] = "raised" /\ w_err[1] = "RecursionBudgetExceeded"
    /\ w_requests[1] = MAX_RECURSION_DEPTH

\* C17: with stat False and with stat True, a directory the consumer has
\* removed from the yielded list is never listed, nor is any directory below
\* it; a walk that ends normally has listed every directory the consumer
\* left in the lists.
C17_PrunedNeverDescended ==
    \A w \in Walkers :
        /\ \A d \in w_listed[w] : InPrunedTree(w, d)
        /\ \A d \in w_pruned[w] : d \notin w_listed[w]
        /\ w_pc[w] = "done" => \A d \in ToList(w) : d \in w_listed[w]

\* a walk with stat False that ended normally after its consumer removed a
\* directory that holds a directory, while other directories were listed
C17_Witness ==
    \E w \in Walkers :
        /\ ~w_stat[w] /\ w_pc[w] = "done"
        /\ \E d \in w_pruned[w] : \E k \in 2..w_n : Parent(k) = d
        /\ Cardinality(w_listed[w]) >= 2

C17_WitnessStat ==
    \E w \in Walkers :
        /\ w_stat[w] /\ w_pc[w] = "done"
        /\ \E d \in w_pruned[w] : \E k \in 2..w_n : Parent(k) = d
        /\ Cardinality(w_listed[w]) >= 2

Ascending(s) == \A i, j \in 1..Len(s) : i < j => s[i] < s[j]
Elements(s) == {s[i] : i \in 1..Len(s)}
Listed(d, is_dir) == {ls(d)[i].name : i \in {i \in 1..Len(ls(d)) : ls(d)[i].isdir = is_dir}}
TopFrame(w) == w_stack[w][Len(w_stack[w])]
YieldedDirectories(w) ==
    IF w_stat[w] THEN TopFrame(w).directories ELSE TopFrame(w).dirnames
\* the walk is suspended at a yield and its consumer has not touched the list
JustYielded(w) ==
    /\ w_pc[w] = "suspended"
    /\ TopFrame(w).idx = 0
    /\ \A d \in w_pruned[w] : Parent(d) # TopFrame(w).path

\* C18: a yielded triple holds the directories and the files of one listing
\* of its path, each list in ascending order of the basenames and none of
\* them twice; a directory other than the root is listed only after the
\* triple of its parent has been yielded, and the path of every triple is a
\* directory listed once.
C18_TripleIsOneSortedListing ==
    \A w \in Walkers :
        /\ JustYielded(w) =>
              /\ Elements(YieldedDirectories(w)) = Listed(TopFrame(w).path, TRUE)
              /\ Elements(TopFrame(w).files) = Listed(TopFrame(w).path, FALSE)
              /\ Elements(YieldedDirectories(w)) \cap Elements(TopFrame(w).files) = {}
              /\ Ascending(YieldedDirectories(w))
              /\ Ascending(TopFrame(w).files)
              /\ TopFrame(w).path \in w_listed[w]
        /\ \A d \in w_listed[w] : d # w_root[w] => Parent(d) \in w_listed[w]
        /\ w_pc[w] = "suspended" =>
              \A i \in 2..Len(w_stack[w]) :
                  w_stack[w][i].path \in Elements(w_stack[w][i - 1].directories)

\* a triple below the root with two directories and two files
C18_Witness ==
    \E w \in Walkers :
        /\ JustYielded(w)
        /\ Len(w_stack[w]) >= 2
        /\ Len(YieldedDirectories(w)) >= 2
        /\ Len(TopFrame(w).files) >= 2

-----------------------------------------------------------------------------
(* The chunked merge *)

MaxFiles == 5
MaxChunkSize == 3
MaxThreads == 2
MaxLevels == 3

\* a file: an input (level 0, numbered from 1), the chunk file chunk<i>.root
\* in the scratch directory of recursion level lvl >= 1, or the destination
File(lvl, i) == [lvl |-> lvl, i |-> i]
Dst == File(-1, 0)
Inputs(n) == [j \in 1..n |-> File(0, j)]

\* osp.join(tmpdir, 'tmphadd', str(uuid.uuid4())): the scratch directory of
\* the call at recursion level lvl lies inside the one of level lvl - 1
ScratchDir(lvl) == lvl

\* an invocation of the merge tool: hadd -f dst srcs
Hadd(srcs, dst) == [srcs |-> srcs, dst |-> dst]

\* a count of chunks that is one too many when chunk_size divides the length
n_chunks_floor_plus_one(n, chunk_size) == n \div chunk_size + 1

\* int(math.ceil(len(root_files) / float(chunk_size)))
n_chunks(n, chunk_size) == (n + chunk_size - 1) \div chunk_size

Min(a, b) == IF a < b THEN a ELSE b

\* root_files[ i_chunk*chunk_size : (i_chunk+1)*chunk_size ]
Slice(root_files, i_chunk, chunk_size) ==
    SubSeq(root_files, i_chunk * chunk_size + 1,
           Min((i_chunk + 1) * chunk_size, Len(root_files)))

\* func_args, without the flag dry: per chunk its inputs and its chunk file
func_args(root_files, chunk_size, lvl) ==
    [k \in 1..n_chunks(Len(root_files), chunk_size) |->
        Hadd(Slice(root_files, k - 1, chunk_size), File(lvl, k - 1))]

\* the frame of one _hadd_chunks call
HaddFrame(root_files, tmpdir, args, tasks, pc, err) ==
    [root_files |-> root_files, tmpdir |-> tmpdir, func_args |-> args,
     tasks |-> tasks, pc |-> pc, err |-> err]

Called(root_files) == HaddFrame(root_files, 0, <<>>, <<>>, "called", "none")

\* a cleanup that is skipped when the call ends in an exception
rmtree_on_success(pc) == pc = "returning"

\* `finally: shutil.rmtree(tmpdir)`
rmtree_on_exit(pc) == TRUE

-----------------------------------------------------------------------------
(* SpecHadd: one call of _hadd_chunks, its worker pool and its recursion *)

ExampleArgs == [n |-> 450, c |-> 200]
HaddArgs == {[n |-> n, c |-> c] : n \in 1..MaxFiles, c \in 1..MaxChunkSize} \cup {ExampleArgs}

InitHadd ==
    /\ \E a \in HaddArgs :
          /\ h_n = a.n
          /\ h_chunk_size = a.c
          /\ h_stack = <<Called(Inputs(a.n))>>
    /\ h_n_threads \in 1..MaxThreads
    /\ h_dry \in BOOLEAN
    /\ h_on_path \in BOOLEAN
    /\ h_pc = "running"
    /\ h_err = "none"
    /\ h_dirs = {}
    /\ h_files = {}
    /\ h_created = {}
    /\ h_log = <<>>

haddArgVars == <<h_n, h_chunk_size, h_n_threads, h_dry, h_on_path>>

Top == h_stack[Len(h_stack)]
SetTop(frame) == [h_stack EXCEPT ![Len(h_stack)] = frame]

\* _hadd(root_files, dst, dry) of a call that needs no chunking; the tool
\* succeeds or fails, and a tool that is not on the path is only logged
DirectMerge ==
    /\ h_pc = "running" /\ Top.pc = "called"
    /\ Len(Top.root_files) < h_chunk_size
    /\ \E ok \in BOOLEAN :
          LET raises == ~h_dry /\ h_on_path /\ ~ok
          IN  /\ h_stack' = SetTop([Top EXCEPT !.pc = IF raises THEN "raising" ELSE "returning",
                                               !.err = IF raises THEN "CalledProcessError"
                                                       ELSE "none"])
              /\ h_log' = IF h_dry THEN h_log ELSE Append(h_log, Hadd(Top.root_files, Dst))
    /\ UNCHANGED <<haddArgVars, h_pc, h_err, h_dirs, h_files, h_created, nonHaddVars>>

\* os.makedirs(tmpdir) and the list of func_args
StartChunks ==
    /\ h_pc = "running" /\ Top.pc = "called"
    /\ Len(Top.root_files) >= h_chunk_size
    /\ LET lvl == Len(h_stack)
           args == func_args(Top.root_files, h_chunk_size, lvl)
       IN  /\ h_stack' = SetTop(HaddFrame(Top.root_files, ScratchDir(lvl), args,
                                          [k \in 1..Len(args) |-> "pending"],
                                          IF h_dry THEN "merge" ELSE "pool", "none"))
           /\ h_dirs' = h_dirs \cup {ScratchDir(lvl)}
           /\ h_created' = h_created \cup {ScratchDir(lvl)}
    /\ UNCHANGED <<haddArgVars, h_pc, h_err, h_files, h_log, nonHaddVars>>

\* os.makedirs(tmpdir) fails: the exception leaves the call before its try
MakedirsFails ==
    /\ h_pc = "running" /\ Top.pc = "called"
    /\ Len(Top.root_files) >= h_chunk_size
    /\ h_stack' = SetTop([Top EXCEPT !.pc = "raising", !.err = "OSError"])
    /\ UNCHANGED <<haddArgVars, h_pc, h_err, h_dirs, h_files, h_created, h_log, nonHaddVars>>

Running(tasks) == {k \in 1..Len(tasks) : tasks[k] = "running"}
Pending(tasks) == {k \in 1..Len(tasks) : tasks[k] = "pending"}

\* a pool that starts a process per chunk
pool_unbounded(running, n_threads) == TRUE
\* mp.Pool(n_threads): a chunk starts when one of the n_threads workers is free
pool_has_free_worker(running, n_threads) == running < n_threads

\* a free worker of the pool takes the next chunk and runs the merge tool
WorkerStart ==
    /\ h_pc = "running" /\ Top.pc = "pool"
    /\ Pending(Top.tasks) # {}
    /\ pool_has_free_worker(Cardinality(Running(Top.tasks)), h_n_threads)
    /\ LET k == CHOOSE p \in Pending(Top.tasks) : \A q \in Pending(Top.tasks) : p <= q
       IN  /\ h_stack' = SetTop([Top EXCEPT !.tasks[k] = "running"])
           /\ h_log' = Append(h_log, Top.func_args[k])
    /\ UNCHANGED <<haddArgVars, h_pc, h_err, h_dirs, h_files, h_created, nonHaddVars>>

\* the merge tool of a worker ends: its chunk file is written, or it fails
\* and leaves the chunk file or not; a tool that is not on the path writes
\* nothing and its worker reports no error
WorkerFinish ==
    /\ h_pc = "running" /\ Top.pc = "pool"
    /\ \E k \in Running(Top.tasks), ok \in BOOLEAN, written \in BOOLEAN :
          /\ ok => written
          /\ ~h_on_path => (ok /\ written)
          /\ h_stack' = SetTop([Top EXCEPT !.tasks[k] = IF ok THEN "ok" ELSE "failed"])
          /\ h_files' = IF written /\ h_on_path THEN h_files \cup {Top.func_args[k].dst}
                        ELSE h_files
    /\ UNCHANGED <<haddArgVars, h_pc, h_err, h_dirs, h_created, h_log, nonHaddVars>>

\* p.map returns once every chunk is done, or raises what a worker raised
PoolDone ==
    /\ h_pc = "running" /\ Top.pc = "pool"
    /\ \A k \in 1..Len(Top.tasks) : Top.tasks[k] \in {"ok", "failed"}
    /\ h_stack' = SetTop(IF \E k \in 1..Len(Top.tasks) : Top.tasks[k] = "failed"
                         THEN [Top EXCEPT !.pc = "raising", !.err = "CalledProcessError"]
                         ELSE [Top EXCEPT !.pc = "merge"])
    /\ UNCHANGED <<haddArgVars, h_pc, h_err, h_dirs, h_files, h_created, h_log, nonHaddVars>>

ChunkFiles(args) == [k \in 1..Len(args) |-> args[k].dst]

\* the recursive call _hadd_chunks(chunk_rootfiles, dst, ...); the recursion
\* is cut off at MaxLevels nested calls
Recurse ==
    /\ h_pc = "running" /\ Top.pc = "merge"
    /\ IF Len(h_stack) < MaxLevels
       THEN h_stack' = Append(SetTop([Top EXCEPT !.pc = "waiting"]),
                              Called(ChunkFiles(Top.func_args)))
       ELSE h_stack' = SetTop([Top EXCEPT !.pc = "raising", !.err = "RecursionError"])
    /\ UNCHANGED <<haddArgVars, h_pc, h_err, h_dirs, h_files, h_created, h_log, nonHaddVars>>

\* The call on top returns or raises: its finally clause, if it has entered
\* its try, removes its scratch directory with all that is in it, and the
\* caller goes on, to its own finally clause.
Exit ==
    /\ h_pc = "running" /\ Top.pc \in {"returning", "raising"}
    /\ LET lvl == Len(h_stack)
           cleans == Top.tmpdir # 0 /\ rmtree_on_exit(Top.pc)
       IN  /\ h_dirs' = IF cleans THEN {d \in h_dirs : d < Top.tmpdir} ELSE h_dirs
           /\ h_files' = IF cleans THEN {f \in h_files : f.lvl < Top.tmpdir} ELSE h_files
           /\ IF lvl = 1
              THEN /\ h_stack' = <<>>
                   /\ h_pc' = IF Top.pc = "raising" THEN "raised" ELSE "done"
                   /\ h_err' = Top.err
              ELSE /\ h_stack' = [SubSeq(h_stack, 1, lvl - 1) EXCEPT
                                     ![lvl - 1].pc = Top.pc, ![lvl - 1].err = Top.err]
                   /\ UNCHANGED <<h_pc, h_err>>
    /\ UNCHANGED <<haddArgVars, h_created, h_log, nonHaddVars>>

NextHadd ==
    \/ DirectMerge
    \/ StartChunks
    \/ MakedirsFails
    \/ WorkerStart
    \/ WorkerFinish
    \/ PoolDone
    \/ Recurse
    \/ Exit

-----------------------------------------------------------------------------
(* Claims about the chunked merge *)

\* C3: once a chunking call has returned or raised, at whatever recursion
\* level, its scratch directory is gone, and so is every chunk file in it.
C3_ScratchRemovedOnExit ==
    \A d \in h_created :
        d > Len(h_stack) => (d \notin h_dirs /\ \A f \in h_files : f.lvl # d)

\* the call has ended in the failure of a merge of the second recursion
\* level, after the chunk files of the first level had been written
C3_Witness ==
    /\ h_pc = "raised" /\ h_err = "CalledProcessError"
    /\ ~h_dry /\ h_on_path
    /\ h_created = {1, 2}
    /\ h_dirs = {}

\* the least m with m * c >= n
CeilDiv(n, c) == CHOOSE m \in 0..n : m * c >= n /\ (m - 1) * c < n

RECURSIVE Concat(_)
Concat(ss) == IF ss = <<>> THEN <<>> ELSE Head(ss) \o Concat(Tail(ss))

\* the merges issued so far that write into the scratch directory of level
\* lvl (-1: into the destination), in the order they were issued
IssuedInto(lvl) == SelectSeq(h_log, LAMBDA m : m.dst.lvl = lvl)

ChunkedRight(k) ==
    LET f == h_stack[k]
        n == Len(f.root_files)
        c == h_chunk_size
        m == CeilDiv(n, c)
        args == f.func_args
        started == Len(args) - Cardinality(Pending(f.tasks))
    IN  /\ n >= c
        /\ Len(args) = m
        /\ Concat([i \in 1..Len(args) |-> args[i].srcs]) = f.root_files
        /\ \A i \in 1..(Len(args) - 1) : Len(args[i].srcs) = c
        /\ Len(args[Len(args)].srcs) = n - (m - 1) * c
        /\ \A i, j \in 1..Len(args) : args[i].dst = args[j].dst => i = j
        /\ IssuedInto(k) = SubSeq(args, 1, started)
        /\ (~h_dry /\ f.pc # "pool") => started = m
        /\ k < Len(h_stack) => h_stack[k + 1].root_files = [i \in 1..Len(args) |-> args[i].dst]

MergedDirectly(k) ==
    LET f == h_stack[k]
    IN  /\ Len(f.root_files) < h_chunk_size
        /\ ScratchDir(k) \notin h_created
        /\ IssuedInto(-1) = IF h_dry THEN <<>> ELSE <<Hadd(f.root_files, Dst)>>

\* C4: a call with at least chunk_size inputs merges ceil(n/c) chunks, the
\* contiguous slices of its inputs in order, each of size c but the last,
\* each into a chunk file of its own, once each and in order, and hands the
\* chunk files in chunk order to the merge of the next level; a call with
\* fewer inputs issues one merge of all its inputs into the destination and
\* creates no scratch directory.  450 inputs with chunk size 200 end in
\* merges of 200, 200 and 50 inputs and one merge of the three chunk files.
C4_ChunksAreContiguousSlices ==
    /\ \A k \in 1..Len(h_stack) :
          /\ h_stack[k].tmpdir # 0 => ChunkedRight(k)
          /\ (h_stack[k].tmpdir = 0 /\ h_stack[k].pc = "returning") => MergedDirectly(k)
    /\ (h_n = ExampleArgs.n /\ h_chunk_size = ExampleArgs.c /\ ~h_dry /\ h_pc = "done") =>
          /\ Len(h_log) = 4
          /\ h_log[1] = Hadd(SubSeq(Inputs(h_n), 1, 200), File(1, 0))
          /\ h_log[2] = Hadd(SubSeq(Inputs(h_n), 201, 400), File(1, 1))
          /\ h_log[3] = Hadd(SubSeq(Inputs(h_n), 401, 450), File(1, 2))
          /\ h_log[4] = Hadd(<<File(1, 0), File(1, 1), File(1, 2)>>, Dst)

C4_Witness ==
    /\ h_n = ExampleArgs.n /\ h_chunk_size = ExampleArgs.c
    /\ ~h_dry /\ h_on_path
    /\ h_pc = "done"
    /\ Len(h_log) = 4

\* the call of level k + 1 has fewer files to merge than the call of level k
Shrinks(k) == Len(h_stack[k + 1].root_files) < Len(h_stack[k].root_files)

\* C23: for every non-empty list of inputs and every chunk size >= 1 the
\* chunked merge terminates: from one recursion level to the next the number
\* of files strictly shrinks, until one final merge into the destination is
\* issued and the call returns.
C23_FilesShrinkPerLevel ==
    /\ \A k \in 1..(Len(h_stack) - 1) : Shrinks(k)
    /\ (h_pc = "done" /\ ~h_dry) => h_log[Len(h_log)].dst = Dst

\* the same for the chunk sizes of two and more
C23_FilesShrinkFromTwo == h_chunk_size >= 2 => C23_FilesShrinkPerLevel

Unfinished(tasks) == Running(tasks) \cup Pending(tasks)
FinalMergeIssued == \E i \in 1..Len(h_log) : h_log[i].dst = Dst

\* C24: in a chunked merge at most n_threads chunk merges run at any instant,
\* and neither the recursive merge of the next level nor the final merge
\* starts before every chunk merge of the current level has finished.
C24_BoundedPoolAndLevelBarrier ==
    /\ \A k \in 1..Len(h_stack) : Cardinality(Running(h_stack[k].tasks)) <= h_n_threads
    /\ ~h_dry => \A k \in 1..(Len(h_stack) - 1) : Unfinished(h_stack[k].tasks) = {}
    /\ (~h_dry /\ FinalMergeIssued) =>
          \A k \in 1..Len(h_stack) : Unfinished(h_stack[k].tasks) = {}

\* the pool of the second level is full while a chunk waits for a worker
C24_Witness ==
    /\ Len(h_stack) = 2 /\ ~h_dry /\ h_on_path
    /\ h_n_threads = MaxThreads
    /\ Cardinality(Running(Top.tasks)) = h_n_threads
    /\ Pending(Top.tasks) # {}

\* the final merge has been issued after two levels of chunk merges
C24_WitnessFinal ==
    /\ FinalMergeIssued /\ ~h_dry /\ h_on_path /\ h_created = {1, 2} /\ h_chunk_size >= 2

\* C25: when the merge tool is not installed (its spawn fails with errno 2),
\* the merge fails towards its caller instead of returning as if the merge
\* had been done, and in a chunked merge no later level is started.
C25_MissingToolFails ==
    (~h_dry /\ ~h_on_path) =>
        /\ h_pc # "done"
        /\ Len(h_stack) <= 1

\* what happens instead: with the tool missing no merge ever fails
C25_MissingToolIsSilent ==
    (~h_dry /\ ~h_on_path) =>
        /\ h_err \in {"none", "OSError", "RecursionError"}
        /\ \A k \in 1..Len(h_stack) : h_stack[k].err # "CalledProcessError"

(***************************************************************************)
(* Running external commands: run_command, get_exitcode and the dry mode   *)
(***************************************************************************)
MaxRetries == 1
N_SECONDS_SLEEP == 10
RunExitCodes == {0, 1, XRD_NOT_FOUND}
DryArgs == {"None", "True", "False"}

\* What run_command hands back: the captured lines of attempt n, the empty
\* string of a dry run, or an exception.
RunNone == [kind |-> "none", n |-> 0, exc |-> ""]
RunOutput(n) == [kind |-> "output", n |-> n, exc |-> ""]
RunEmpty == [kind |-> "empty", n |-> 0, exc |-> ""]
RunInt(k) == [kind |-> "int", n |-> k, exc |-> ""]
RunRaise(e) == [kind |-> "raise", n |-> 0, exc |-> e]

\* `if dry is None: dry = DRYMODE`
resolve_dry(dry, dry_on) == IF dry = "None" THEN dry_on ELSE dry = "True"

retries_remain_inclusive(i_attempt, n_retries) == i_attempt <= n_retries
\* `if i_attempt < n_retries`
retries_remain(i_attempt, n_retries) == i_attempt < n_retries

\* The branch run_command takes once a process has exited with returncode.
\* The branch for an accepted non-zero code logs with the undefined name
\* return_code before its return statement, so it leaves with NameError.
after_exit(returncode, non_zero_exitcode_ok, i_attempt, n_retries) ==
    IF returncode = 0 THEN "return output"
    ELSE IF non_zero_exitcode_ok THEN "NameError"
    ELSE IF retries_remain(i_attempt, n_retries) THEN "sleep"
    ELSE "CalledProcessError"

NoOperation == [op |-> "none", drymode |-> FALSE, spawned |-> 0, modified |-> FALSE,
                exc |-> ""]

\* subprocess.CalledProcessError(returncode, cmd, output=None): the fields of
\* the exception object, by position of the arguments
CalledProcessError(returncode, cmd, output) ==
    [returncode |-> returncode, cmd |-> cmd, output |-> output]
NoError == CalledProcessError(PyNone, PyNone, PyNone)
\* the command line, and the lines captured from the n-th process
CommandLine == PyList(<<"cmd">>)
CapturedOutput(n) == PyList(<<PyInt(n)>>)
\* `raise subprocess.CalledProcessError(cmd, returncode)`
raised_error(cmd, returncode, output) == CalledProcessError(cmd, PyInt(returncode), PyNone)

InitRun ==
    /\ DRYMODE = FALSE
    /\ c_arg = "None"
    /\ c_dry = FALSE
    /\ c_ok = FALSE
    /\ c_retries = 0
    /\ c_pc = "idle"
    /\ c_attempt = 0
    /\ c_codes = <<>>
    /\ c_slept = 0
    /\ c_result = RunNone
    /\ c_error = NoError
    /\ o_last = NoOperation

callVars == <<c_arg, c_dry, c_ok, c_retries>>
Terminated == c_pc \in {"returned", "raised"}

\* drymode(flag), between two calls
drymode(flag) ==
    /\ c_pc \in {"idle", "returned", "raised"}
    /\ DRYMODE' = flag
    /\ UNCHANGED <<callVars, c_pc, c_attempt, c_codes, c_slept, c_result, c_error, o_last>>
    /\ UNCHANGED nonRunVars

\* run_command is entered: i_attempt = 0 and dry is resolved
Enter(dry, non_zero_exitcode_ok, n_retries) ==
    /\ c_pc \in {"idle", "returned", "raised"}
    /\ c_arg' = dry
    /\ c_dry' = resolve_dry(dry, DRYMODE)
    /\ c_ok' = non_zero_exitcode_ok
    /\ c_retries' = n_retries
    /\ c_pc' = "loop"
    /\ c_attempt' = 0
    /\ c_codes' = <<>>
    /\ c_slept' = 0
    /\ c_result' = RunNone
    /\ c_error' = NoError
    /\ o_last' = NoOperation
    /\ UNCHANGED DRYMODE
    /\ UNCHANGED nonRunVars

\* `if dry: return ''`
DryReturn ==
    /\ c_pc = "loop"
    /\ c_dry
    /\ c_pc' = "returned"
    /\ c_result' = RunEmpty
    /\ UNCHANGED <<DRYMODE, callVars, c_attempt, c_codes, c_slept, c_error, o_last>>
    /\ UNCHANGED nonRunVars

\* Popen cannot start the executable: OSError leaves run_command at once
PopenFails ==
    /\ c_pc = "loop"
    /\ ~c_dry
    /\ c_pc' = "raised"
    /\ c_result' = RunRaise("OSError")
    /\ UNCHANGED <<DRYMODE, callVars, c_attempt, c_codes, c_slept, c_error, o_last>>
    /\ UNCHANGED nonRunVars

\* One pass of the loop: the process is spawned, its output captured, and
\* it exits with returncode.
Attempt(returncode) ==
    /\ c_pc = "loop"
    /\ ~c_dry
    /\ c_codes' = Append(c_codes, returncode)
    /\ \E branch \in {after_exit(returncode, c_ok, c_attempt, c_retries)} :
          /\ c_pc' = CASE branch = "return output" -> "returned"
                       [] branch = "sleep" -> "sleeping"
                       [] OTHER -> "raised"
          /\ c_result' = CASE branch = "return output" -> RunOutput(Len(c_codes) + 1)
                           [] branch = "sleep" -> c_result
                           [] OTHER -> RunRaise(branch)
          /\ c_attempt' = IF branch = "sleep" THEN c_attempt + 1 ELSE c_attempt
          /\ c_error' = IF branch = "CalledProcessError"
                       THEN raised_error(CommandLine, returncode, CapturedOutput(Len(c_codes) + 1))
                       ELSE c_error
    /\ UNCHANGED <<DRYMODE, callVars, c_slept, o_last>>
    /\ UNCHANGED nonRunVars

\* time.sleep(N_SECONDS_SLEEP); continue
Sleep ==
    /\ c_pc = "sleeping"
    /\ c_slept' = c_slept + N_SECONDS_SLEEP
    /\ c_pc' = "loop"
    /\ UNCHANGED <<DRYMODE, callVars, c_attempt, c_codes, c_result, c_error, o_last>>
    /\ UNCHANGED nonRunVars

(***************************************************************************)
(* The operations of the module as callers of run_command and get_exitcode *)
(***************************************************************************)
\* exits[i] is the exit code the i-th spawned process would have
ExitPlans == [1..(MaxRetries + 3) -> {0, XRD_NOT_FOUND}]
Ran(res, spawned) == [res |-> res, spawned |-> spawned]

get_exitcode_spawns_always(dry_on, exits) == [code |-> exits[1], spawned |-> 1]
\* get_exitcode: `if DRYMODE: returncode = 0`, else the code of one process
get_exitcode_DRYMODE(dry_on, exits) ==
    IF dry_on THEN [code |-> 0, spawned |-> 0] ELSE [code |-> exits[1], spawned |-> 1]

\* The loop of run_command, from attempt i_attempt on
RECURSIVE run_command_loop(_, _, _, _)
run_command_loop(exits, non_zero_exitcode_ok, n_retries, i_attempt) ==
    Only({ IF branch = "sleep"
           THEN run_command_loop(exits, non_zero_exitcode_ok, n_retries, i_attempt + 1)
           ELSE IF branch = "return output"
           THEN Ran(RunOutput(i_attempt + 1), i_attempt + 1)
           ELSE Ran(RunRaise(branch), i_attempt + 1)
         : branch \in {after_exit(exits[i_attempt + 1], non_zero_exitcode_ok,
                                  i_attempt, n_retries)} })

\* run_command(cmd) as the operations call it: dry is left None
run_command_DRYMODE(dry_on, exits, non_zero_exitcode_ok, n_retries) ==
    IF resolve_dry("None", dry_on) THEN Ran(RunEmpty, 0)
    ELSE run_command_loop(exits, non_zero_exitcode_ok, n_retries, 0)

Done(spawned, modified, exc) == [spawned |-> spawned, modified |-> modified, exc |-> exc]
ExcOf(res) == IF res.kind = "raise" THEN res.exc ELSE "ok"
Rest(exits) == [i \in 1..(MaxRetries + 2) |-> exits[i + 1]]

\* A command that changes the storage element when it succeeds
\* (_mkdir_*, _rm_gfal, _cp_*): one run_command
Mutating(dry_on, exits, n_retries) ==
    Only({ Done(r.spawned, r.res.kind = "output", ExcOf(r.res))
         : r \in {run_command_DRYMODE(dry_on, exits, FALSE, n_retries)} })

\* _stat_xrootd / _stat_gfal: one run_command, then the parse of its lines;
\* the empty string of a dry run has no Size line
Op_stat(dry_on, exits, not_exist_ok) ==
    Only({ Done(r.spawned, FALSE,
                IF r.res.kind = "empty" THEN "RuntimeError" ELSE ExcOf(r.res))
         : r \in {run_command_DRYMODE(dry_on, exits, not_exist_ok, 0)} })

\* exists, isdir, isfile, is_file_or_dir with the cache off: xrdfs paths ask
\* get_exitcode, the others (exists apart) go through _stat_gfal
Op_classify(op, dry_on, exits, xrootd) ==
    IF xrootd \/ op = "exists"
    THEN Only({ Done(g.spawned, FALSE,
                     IF op = "is_file_or_dir" /\ xrootd
                        /\ g.code \notin {0, XRD_NOT_FOUND, XRD_NOT_A_DIR}
                     THEN "RuntimeError" ELSE "ok")
              : g \in {get_exitcode_DRYMODE(dry_on, exits)} })
    ELSE Op_stat(dry_on, exits, TRUE)

\* _rm_eos: the directory test, then the removal;  _rm_gfal: the removal
Op_rm(dry_on, exits, eos, recursive) ==
    IF eos
    THEN Only({ IF g.code = 0 /\ ~recursive
                THEN Done(g.spawned, FALSE, "RuntimeError")
                ELSE Only({ Done(g.spawned + m.spawned, m.modified, m.exc)
                          : m \in {Mutating(dry_on, Rest(exits), 0)} })
              : g \in {get_exitcode_DRYMODE(dry_on, exits)} })
    ELSE Mutating(dry_on, exits, 0)

\* listdir with the cache off: isdir(directory), then the listing command
Op_listdir(dry_on, exits, xrootd) ==
    Only({ IF c.exc # "ok" THEN c
           ELSE IF xrootd /\ get_exitcode_DRYMODE(dry_on, exits).code # 0
           THEN Done(c.spawned, FALSE, "RuntimeError")
           ELSE Only({ Done(c.spawned + r.spawned, FALSE, ExcOf(r.res))
                     : r \in {run_command_DRYMODE(dry_on, Rest(exits), FALSE, 0)} })
         : c \in {Op_classify("isdir", dry_on, exits, xrootd)} })

\* tarball_cache: the tar command, which writes nothing remote
Op_tarball_cache(dry_on, exits) ==
    Only({ Done(r.spawned, FALSE, ExcOf(r.res))
         : r \in {run_command_DRYMODE(dry_on, exits, FALSE, 0)} })

Operations == {"mkdir", "rm", "cp", "stat", "listdir", "exists", "isdir", "isfile",
               "is_file_or_dir", "tarball_cache"}

Perform(op, dry_on, exits, xrootd, flag, n_retries) ==
    CASE op = "mkdir" -> Mutating(dry_on, exits, 0)
      [] op = "cp" -> Mutating(dry_on, exits, n_retries)
      [] op = "rm" -> Op_rm(dry_on, exits, xrootd, flag)
      [] op = "stat" -> Op_stat(dry_on, exits, flag)
      [] op = "listdir" -> Op_listdir(dry_on, exits, xrootd)
      [] op = "tarball_cache" -> Op_tarball_cache(dry_on, exits)
      [] OTHER -> Op_classify(op, dry_on, exits, xrootd)

\* One operation of the module, called under the current global flag
Operation(op, exits, xrootd, flag, n_retries) ==
    /\ c_pc = "idle"
    /\ \E d \in {Perform(op, DRYMODE, exits, xrootd, flag, n_retries)} :
          o_last' = [op |-> op, drymode |-> DRYMODE, spawned |-> d.spawned,
                     modified |-> d.modified, exc |-> d.exc]
    /\ c_arg' = "None"
    /\ c_dry' = FALSE
    /\ c_ok' = FALSE
    /\ c_retries' = 0
    /\ c_pc' = "idle"
    /\ c_attempt' = 0
    /\ c_codes' = <<>>
    /\ c_slept' = 0
    /\ c_result' = RunNone
    /\ c_error' = NoError
    /\ UNCHANGED DRYMODE
    /\ UNCHANGED nonRunVars

NextRun ==
    \/ \E flag \in BOOLEAN : drymode(flag)
    \/ \E dry \in DryArgs, ok \in BOOLEAN, r \in 0..MaxRetries : Enter(dry, ok, r)
    \/ DryReturn
    \/ PopenFails
    \/ \E k \in RunExitCodes : Attempt(k)
    \/ Sleep
    \/ \E op \in Operations, exits \in ExitPlans, x \in BOOLEAN, f \in BOOLEAN,
          r \in 0..MaxRetries : Operation(op, exits, x, f, r)

(***************************************************************************)
(* Claims about run_command and the dry mode                               *)
(***************************************************************************)
Failing(codes) == \A i \in 1..Len(codes) : codes[i] # 0
Front(codes) == SubSeq(codes, 1, Len(codes) - 1)
Retrying == c_pc # "idle" /\ ~c_dry /\ ~c_ok

\* C12: with non_zero_exitcode_ok False and n_retries = r, run_command spawns
\* the command at most r+1 times; every spawn but the last exited non-zero
\* and was followed by one sleep of N_SECONDS_SLEEP; it returns the output of
\* the attempt that exited 0, which is the last spawn; it raises
\* CalledProcessError exactly when r+1 attempts all exited non-zero; with
\* r = 0 a finished call has spawned exactly once.
C12_RetriesBounded ==
    Retrying =>
        /\ Len(c_codes) <= c_retries + 1
        /\ Failing(Front(c_codes))
        /\ c_pc = "loop" => Failing(c_codes) /\ c_slept = N_SECONDS_SLEEP * Len(c_codes)
        /\ c_pc = "sleeping" =>
              Failing(c_codes) /\ c_slept = N_SECONDS_SLEEP * (Len(c_codes) - 1)
        /\ c_pc = "returned" =>
              /\ c_codes # <<>> /\ c_codes[Len(c_codes)] = 0
              /\ c_result = RunOutput(Len(c_codes))
              /\ c_slept = N_SECONDS_SLEEP * (Len(c_codes) - 1)
        /\ (c_pc = "raised" /\ c_result # RunRaise("OSError")) =>
              /\ c_result = RunRaise("CalledProcessError")
              /\ Len(c_codes) = c_retries + 1 /\ Failing(c_codes)
              /\ c_slept = N_SECONDS_SLEEP * c_retries
        /\ (Terminated /\ c_retries = 0 /\ c_result # RunRaise("OSError")) =>
              Len(c_codes) = 1

C12_Witness ==
    /\ Retrying /\ c_retries = MaxRetries /\ c_pc = "returned"
    /\ Len(c_codes) = MaxRetries + 1 /\ c_slept = N_SECONDS_SLEEP * MaxRetries

\* C13: with non_zero_exitcode_ok True, a command that exits with a non-zero
\* code k makes run_command return the integer k, after a single spawn.
C13_AcceptedCodeIsReturned ==
    (c_ok /\ ~c_dry /\ Terminated /\ c_codes # <<>> /\ c_codes[Len(c_codes)] # 0) =>
        /\ c_pc = "returned"
        /\ c_result = RunInt(c_codes[Len(c_codes)])
        /\ Len(c_codes) = 1

\* C22: when run_command finally fails (a non-zero exit that is not accepted
\* and no retry left), the error it raises carries the exit code of the last
\* attempt in its returncode field and the captured output of the command in
\* its output field.
C22_ErrorCarriesCodeAndOutput ==
    (c_pc = "raised" /\ c_result = RunRaise("CalledProcessError")) =>
        /\ c_error.returncode = PyInt(c_codes[Len(c_codes)])
        /\ c_error.output = CapturedOutput(Len(c_codes))

\* what the raised error does carry: the exit code in the field cmd, the
\* command line in the field returncode, and no output
C22_FieldsAreSwapped ==
    (c_pc = "raised" /\ c_result = RunRaise("CalledProcessError")) =>
        /\ c_error.cmd = PyInt(c_codes[Len(c_codes)])
        /\ c_error.returncode = CommandLine
        /\ c_error.output = PyNone

\* C14: an operation called while DRYMODE is set spawns no process and leaves
\* the storage element as it was, and run_command entered with dry left None
\* while DRYMODE is set returns the empty string having spawned nothing.
C14_DryModeSpawnsNothing ==
    /\ (o_last.op # "none" /\ o_last.drymode) =>
          o_last.spawned = 0 /\ ~o_last.modified
    /\ (c_pc # "idle" /\ c_arg = "None" /\ c_dry) =>
          /\ c_codes = <<>>
          /\ c_pc \in {"loop", "returned"}
          /\ c_pc = "returned" => c_result = RunEmpty

C14_Witness ==
    /\ o_last.op = "rm" /\ o_last.drymode /\ o_last.exc = "ok"
    /\ DRYMODE

C14_WitnessRunCommand == c_pc = "returned" /\ c_arg = "None" /\ c_dry /\ DRYMODE

-----------------------------------------------------------------------------
(* SpecMgm: the default server, from import through set_default_mgm *)

OtherMgm == <<"b", ":", "/", "/", "b">>
SetMgms == {EnvMgm, OtherMgm}
MgmBarePaths == {Slash, Slash \o <<"a">>}
MgmPfnPaths == {m \o SepLfn \o <<"a">> : m \in SetMgms}
MgmExplicit == {NoneStr} \cup {Some(m) : m \in SetMgms}

\* a set_default_mgm whose assignment stays local to the function
set_default_mgm_local(old, mgm) == old
\* set_default_mgm(mgm): `global DEFAULT_MGM; DEFAULT_MGM = mgm`
set_default_mgm(old, mgm) == Some(mgm)

\* read_default_mgm_from_env(), run once when the module is imported
read_default_mgm_from_env(old, env) ==
    IF env.some THEN set_default_mgm(old, env.v) ELSE old

InitMgm ==
    /\ DEFAULT_MGM = NoneStr
    /\ m_env \in {NoneStr, Some(EnvMgm)}
    /\ m_set = NoneStr
    /\ a_path = <<>>
    /\ a_mgm = NoneStr
    /\ a_pc = "unloaded"
    /\ a_res = Raise("nocall")
    /\ a_res2 = Raise("nocall")

\* import seutils
Import ==
    /\ a_pc = "unloaded"
    /\ DEFAULT_MGM' = read_default_mgm_from_env(DEFAULT_MGM, m_env)
    /\ a_pc' = "start"
    /\ UNCHANGED <<a_path, a_mgm, a_res, a_res2, m_env, m_set, nonMgmVars>>

\* seutils.set_default_mgm(mgm)
CallSetDefaultMgm(mgm) ==
    /\ a_pc # "unloaded"
    /\ DEFAULT_MGM' = set_default_mgm(DEFAULT_MGM, mgm)
    /\ m_set' = Some(mgm)
    /\ a_pc' = "start"
    /\ a_res' = Raise("nocall")
    /\ UNCHANGED <<a_path, a_mgm, a_res2, m_env, nonMgmVars>>

\* format(path, mgm) or split_mgm(path, mgm) under the current default
Resolve(op, path, mgm) ==
    /\ a_pc # "unloaded"
    /\ a_path' = path
    /\ a_mgm' = mgm
    /\ a_res' = IF op = "format" THEN format(path, mgm) ELSE split_mgm(path, mgm)
    /\ a_pc' = op
    /\ UNCHANGED <<DEFAULT_MGM, a_res2, m_env, m_set, nonMgmVars>>

NextMgm ==
    \/ Import
    \/ \E mgm \in SetMgms : CallSetDefaultMgm(mgm)
    \/ \E op \in {"format", "split_mgm"}, path \in MgmBarePaths \cup MgmPfnPaths,
          mgm \in MgmExplicit : Resolve(op, path, mgm)

(* Claims about the default server *)

\* the server the caller set last, else the one of the environment
Expected == IF m_set.some THEN m_set ELSE m_env
Resolved == a_pc \in {"format", "split_mgm"}
UsesDefault == ~has_protocol(a_path) /\ ~a_mgm.some
ServerOf(res) ==
    IF a_pc = "split_mgm" THEN res.val[1] ELSE _split_mgm_pfn(res.val).val[1]

C19_WitnessNoDefault == Resolved /\ UsesDefault /\ a_res = Raise("NoDefaultServer")

-----------------------------------------------------------------------------
(* The export of the cache: write_cache stamps, tarball_cache compares *)

MaxTime == 4
TarSuffix == <<".tar.gz">>
Cwd == <<"/", "w", "/">>
TarDsts == {<<"a">>, <<"b">> \o TarSuffix, Slash \o <<"c">>}
NoneTime == [some |-> FALSE, v |-> 0]
SomeTime(t) == [some |-> TRUE, v |-> t]

\* osp.abspath(dst)
abspath(p) == IF startswith(p, Slash) THEN p ELSE Cwd \o p

\* `if not dst.endswith('.tar.gz'): dst += '.tar.gz'`, then abspath
tarball_dst(dst) == abspath(IF ~endswith(dst, TarSuffix) THEN dst \o TarSuffix ELSE dst)

\* a test that wants a write before it calls the cache unchanged
use_last_tarball_needs_write(last_tarball, last_write) ==
    last_tarball.some /\ last_write.some /\ last_write.v < last_tarball.v
\* `if _LAST_TARBALL_CACHE: if _LAST_CACHE_WRITE is None or
\*  _LAST_CACHE_WRITE < _LAST_TARBALL_CACHE`
use_last_tarball(last_tarball, last_write) ==
    last_tarball.some /\ (~last_write.some \/ last_write.v < last_tarball.v)

NoTar == [op |-> "none", only_if_updated |-> FALSE, use_cache |-> FALSE, ran |-> FALSE,
          exc |-> "", ret |-> NoneStr, exported |-> FALSE, dirty |-> FALSE,
          last_path |-> NoneStr, dst |-> <<>>]

InitTar ==
    /\ t_use_cache \in BOOLEAN
    /\ t_now = 1
    /\ t_last_write = NoneTime
    /\ t_last_tarball = NoneTime
    /\ t_last_path = NoneStr
    /\ t_exported = FALSE
    /\ t_dirty = FALSE
    /\ t_last = NoTar

\* use_cache(flag)
SetUseCache(flag) ==
    /\ t_use_cache' = flag
    /\ t_last' = [NoTar EXCEPT !.op = "use_cache", !.use_cache = flag]
    /\ UNCHANGED <<t_now, t_last_write, t_last_tarball, t_last_path, t_exported, t_dirty>>
    /\ UNCHANGED nonTarVars

\* write_cache(subcache_name, key, value): stamps only when caching is on
WriteCache ==
    /\ t_now < MaxTime
    /\ IF t_use_cache
       THEN /\ t_last_write' = SomeTime(t_now)
            /\ t_now' = t_now + 1
            /\ t_dirty' = TRUE
       ELSE UNCHANGED <<t_last_write, t_now, t_dirty>>
    /\ t_last' = [NoTar EXCEPT !.op = "write_cache", !.use_cache = t_use_cache]
    /\ UNCHANGED <<t_use_cache, t_last_tarball, t_last_path, t_exported>>
    /\ UNCHANGED nonTarVars

\* tarball_cache(dst, only_if_updated); the tar command exits with exitcode
TarballCache(dst, only_if_updated, exitcode) ==
    /\ t_now < MaxTime
    /\ \E called \in {[NoTar EXCEPT !.op = "tarball_cache",
                                    !.only_if_updated = only_if_updated,
                                    !.use_cache = t_use_cache,
                                    !.exported = t_exported,
                                    !.dirty = t_dirty,
                                    !.last_path = t_last_path,
                                    !.dst = dst]} :
          IF ~t_use_cache
          THEN /\ t_last' = [called EXCEPT !.exc = "Exception"]
               /\ UNCHANGED <<t_now, t_last_tarball, t_last_path, t_exported, t_dirty>>
          ELSE IF only_if_updated /\ use_last_tarball(t_last_tarball, t_last_write)
          THEN /\ t_last' = [called EXCEPT !.exc = "ok", !.ret = t_last_path]
               /\ UNCHANGED <<t_now, t_last_tarball, t_last_path, t_exported, t_dirty>>
          ELSE IF run_command(exitcode, FALSE) # "output"
          THEN /\ t_last' = [called EXCEPT !.ran = TRUE,
                                           !.exc = run_command(exitcode, FALSE)]
               /\ UNCHANGED <<t_now, t_last_tarball, t_last_path, t_exported, t_dirty>>
          ELSE /\ t_last_tarball' = SomeTime(t_now)
               /\ t_now' = t_now + 1
               /\ t_last_path' = Some(tarball_dst(dst))
               /\ t_exported' = TRUE
               /\ t_dirty' = FALSE
               /\ t_last' = [called EXCEPT !.ran = TRUE, !.exc = "ok",
                                           !.ret = Some(tarball_dst(dst))]
    /\ UNCHANGED <<t_use_cache, t_last_write>>
    /\ UNCHANGED nonTarVars

NextTar ==
    \/ \E flag \in BOOLEAN : SetUseCache(flag)
    \/ WriteCache
    \/ \E dst \in TarDsts, only_if_updated \in BOOLEAN, exitcode \in {0, 1} :
          TarballCache(dst, only_if_updated, exitcode)

(* Claims about the export of the cache *)

\* C20: tarball_cache fails when caching is off; otherwise with
\* only_if_updated it runs the archive command exactly when no export
\* succeeded earlier or a cache write followed the last export, and when it
\* does not run it returns the path of the last archive; without
\* only_if_updated it always runs the archive command, and a successful run
\* returns the absolute path ending in .tar.gz.
C20_ArchiveIffUpdated ==
    t_last.op = "tarball_cache" =>
        IF ~t_last.use_cache
        THEN t_last.exc = "Exception" /\ ~t_last.ran
        ELSE /\ t_last.ran <=>
                   (~t_last.only_if_updated \/ ~t_last.exported \/ t_last.dirty)
             /\ ~t_last.ran => t_last.exc = "ok" /\ t_last.ret = t_last.last_path
                                /\ t_last.ret.some
             /\ (t_last.ran /\ t_last.exc = "ok") =>
                   /\ t_last.ret = t_last_path
                   /\ endswith(t_last.ret.v, TarSuffix)
                   /\ startswith(t_last.ret.v, Slash)

\* an export skipped because nothing was written since the last one, which
\* itself followed a write
C20_Witness ==
    /\ t_last.op = "tarball_cache" /\ t_last.only_if_updated /\ ~t_last.ran
    /\ t_last_write.some /\ t_last.ret.some

C20_WitnessRearchived ==
    /\ t_last.op = "tarball_cache" /\ t_last.only_if_updated /\ t_last.ran
    /\ t_last.exported /\ t_last.dirty

-----------------------------------------------------------------------------
(* ls_wildcard: a listing filtered by a pattern with wildcards *)

MaxMatchedFiles == 2

\* s.count('/')
RECURSIVE count(_, _)
count(s, c) ==
    IF s = <<>> THEN 0 ELSE (IF Head(s) = c THEN 1 ELSE 0) + count(Tail(s), c)

\* the index of the last c in s, 0 if there is none
rfind(s, c) ==
    IF \A i \in 1..Len(s) : s[i] # c THEN 0
    ELSE CHOOSE i \in 1..Len(s) : s[i] = c /\ \A j \in (i + 1)..Len(s) : s[j] # c

\* s.rsplit('/', 1) for an s that holds a '/'
rsplit1(s, c) == <<SubSeq(s, 1, rfind(s, c) - 1), SubSeq(s, rfind(s, c) + 1, Len(s))>>

\* osp.basename(s)
basename(s) == SubSeq(s, rfind(s, "/") + 1, Len(s))

\* '/'.join(s.split('/')[:n]): s up to its n-th '/', the whole of s if it
\* has fewer
RECURSIVE first_segments(_, _)
first_segments(s, n) ==
    IF s = <<>> THEN <<>>
    ELSE IF Head(s) = "/"
    THEN (IF n <= 1 THEN <<>> ELSE <<"/">> \o first_segments(Tail(s), n - 1))
    ELSE <<Head(s)>> \o first_segments(Tail(s), n)

\* s.replace('*', '.*')
RECURSIVE replace_star(_)
replace_star(s) ==
    IF s = <<>> THEN <<>>
    ELSE (IF Head(s) = "*" THEN <<".", "*">> ELSE <<Head(s)>>) \o replace_star(Tail(s))

atom_matches(atom, c) == atom = "." \/ atom = c

\* a match that has to reach the end of the string
RECURSIVE re_fullmatch(_, _)
re_fullmatch(regex, s) ==
    IF regex = <<>> THEN s = <<>>
    ELSE IF Len(regex) >= 2 /\ regex[2] = "*"
    THEN \E k \in 0..Len(s) :
            /\ \A i \in 1..k : atom_matches(regex[1], s[i])
            /\ re_fullmatch(SubSeq(regex, 3, Len(regex)), SubSeq(s, k + 1, Len(s)))
    ELSE s # <<>> /\ atom_matches(regex[1], Head(s)) /\ re_fullmatch(Tail(regex), Tail(s))

\* re.compile(regex).match(s): the regex matches a prefix of s; '.' stands
\* for any character and 'x*' for any number of x
RECURSIVE re_match(_, _)
re_match(regex, s) ==
    IF regex = <<>> THEN TRUE
    ELSE IF Len(regex) >= 2 /\ regex[2] = "*"
    THEN \E k \in 0..Len(s) :
            /\ \A i \in 1..k : atom_matches(regex[1], s[i])
            /\ re_match(SubSeq(regex, 3, Len(regex)), SubSeq(s, k + 1, Len(s)))
    ELSE s # <<>> /\ atom_matches(regex[1], Head(s)) /\ re_match(Tail(regex), Tail(s))

\* The tree under the parent directory: files, and at most one directory
\* that holds one file of its own.
WildParent == <<"r", ":", "/", "/", "h", "/", "/", "a">>
WildNames == {<<"x", ".", "t">>, <<"x", "x", "t">>, <<"x", ".", "t", "x">>,
              <<"y", ".", "r">>, <<"t">>}
WildSegments == {<<"*", ".", "t">>, <<"*">>, <<"x", "*">>, <<"x", ".", "t">>}
Deeper == <<"z", ".", "t">>
\* an exception, where the value would have been a set of paths
WildRaise(e) == [exc |-> e, val |-> {}]
ChildPath(directory, name) == directory \o Slash \o name

\* listdir(directory, stat=True) on the parent: its direct children
WildListing(files, subdir) ==
    {Inode(ChildPath(WildParent, f), FALSE) : f \in files}
        \cup (IF subdir.some THEN {Inode(ChildPath(WildParent, subdir.v), TRUE)} ELSE {})

\* ls_wildcard(pattern, stat) for a formatted pattern, as the set of the
\* paths it returns.  listing is what the storage element lists for a
\* directory.  With the wildcard in the last segment only, the loop over
\* walk empties the directory list at its first triple.
ls_wildcard(pattern, stat_, listing) ==
    IF ~contains(pattern, Star)
    THEN \* ls(pattern, no_expand_directory=True): the path itself, if it exists
         IF \E c \in listing : c.name = pattern THEN Ok({pattern})
         ELSE WildRaise("RuntimeError")
    ELSE IF ~stat_ /\ ~contains(rsplit1(pattern, "/")[1], Star)
    THEN \* the shortcut: one listing, matched on the basenames
         IF rsplit1(pattern, "/")[2] = Star
         THEN Ok({c.name : c \in listing})
         ELSE Ok({c.name : c \in
                    {c \in listing :
                       re_match(replace_star(rsplit1(pattern, "/")[2]), basename(c.name))}})
    ELSE Only({ IF count(base, "/") + 1 = count(pattern, "/")
                THEN Ok({c.name : c \in
                           {c \in listing :
                              re_match(replace_star(
                                  first_segments(pattern, count(base, "/") + 2)), c.name)}})
                ELSE WildRaise("deeper")
              : base \in {rsplit1(split1(pattern, Star)[1], "/")[1]} })

NoWild == WildRaise("nocall")

InitWild ==
    /\ k_files \in {F \in SUBSET WildNames : Cardinality(F) <= MaxMatchedFiles}
    /\ k_subdir \in {NoneStr} \cup {Some(n) : n \in WildNames}
    /\ ~k_subdir.some \/ k_subdir.v \notin k_files
    /\ k_segment \in WildSegments
    /\ k_stat \in BOOLEAN
    /\ k_res = NoWild

\* ls_wildcard(parent + '/' + segment, stat)
CallLsWildcard ==
    /\ k_res = NoWild
    /\ k_res' = ls_wildcard(ChildPath(WildParent, k_segment), k_stat,
                            WildListing(k_files, k_subdir))
    /\ UNCHANGED <<k_files, k_subdir, k_segment, k_stat>>
    /\ UNCHANGED nonWildVars

NextWild == CallLsWildcard

(* Claims about ls_wildcard *)

\* the whole basename fits the segment, '*' standing for any characters and
\* every other character for itself
RECURSIVE WildcardFits(_, _)
WildcardFits(segment, name) ==
    IF segment = <<>> THEN name = <<>>
    ELSE IF Head(segment) = "*"
    THEN \E k \in 0..Len(name) : WildcardFits(Tail(segment), SubSeq(name, k + 1, Len(name)))
    ELSE name # <<>> /\ Head(name) = Head(segment) /\ WildcardFits(Tail(segment), Tail(name))

ChildrenNames == k_files \cup (IF k_subdir.some THEN {k_subdir.v} ELSE {})
HasWildcard == contains(k_segment, Star)

\* C16: for a pattern whose only wildcard is in its last segment,
\* ls_wildcard returns exactly the direct children of the parent whose
\* basename fits that segment, with stat False as with stat True.
C16_ExactlyTheMatchingChildren ==
    (k_res # NoWild /\ HasWildcard) =>
        /\ k_res.exc = "ok"
        /\ k_res.val = {ChildPath(WildParent, n) : n \in {n \in ChildrenNames :
                                                            WildcardFits(k_segment, n)}}

\* what holds of the code: only direct children, and every child that fits
C16_DirectChildrenAndAllThatFit ==
    (k_res # NoWild /\ HasWildcard) =>
        /\ k_res.exc = "ok"
        /\ k_res.val \subseteq {ChildPath(WildParent, n) : n \in ChildrenNames}
        /\ \A n \in ChildrenNames :
              WildcardFits(k_segment, n) => ChildPath(WildParent, n) \in k_res.val

-----------------------------------------------------------------------------
(* SpecSe: mutations of the storage element followed by read queries, with *)
(* the cache off                                                           *)

\* node 1 is a path /d, nodes 2 and 3 are the paths /d/f and /d/g below it
SeNodes == {1, 2, 3}
Contents == {"c1", "c2"}
SeNamespaces ==
    {f \in [SeNodes -> Kinds] :
        /\ f[1] # "dir" => (f[2] = "missing" /\ f[3] = "missing")
        /\ f[2] # "dir" /\ f[3] # "dir"}

PyStr(s) == [t |-> "str", s |-> s]

\* exit code of `xrdfs mkdir -p` / `gfal-mkdir -p`: an existing directory is
\* fine, an existing file is not
ExitMkdir(node) == IF q_fs[node] = "file" THEN XRD_NOT_A_DIR ELSE 0

\* exit code of `gfal-rm [-r]` / `eos rm [-r]`
ExitRm(node, recursive) ==
    IF q_fs[node] = "missing" THEN XRD_NOT_FOUND
    ELSE IF q_fs[node] = "dir" /\ ~recursive THEN XRD_NOT_A_DIR
    ELSE 0

\* exit code of `xrdcp -p src dst` / `gfal-copy -p src dst`, without -f
ExitCp(src, dst) ==
    IF q_fs[src] # "file" THEN XRD_NOT_FOUND
    ELSE IF q_fs[dst] # "missing" \/ (dst # 1 /\ q_fs[1] # "dir") THEN XRD_NOT_A_DIR
    ELSE 0

\* exit code of `xrdfs cat`
ExitCat(node) == IF q_fs[node] = "file" THEN 0 ELSE XRD_NOT_FOUND

\* what the removal command leaves behind
AfterRm(fs, node) ==
    [n \in SeNodes |-> IF n = node \/ (node = 1 /\ n # 1) THEN "missing" ELSE fs[n]]

\* mkdir(directory): _mkdir_xrootd or _mkdir_gfal, one run_command each
Se_mkdir(node) == run_command(ExitMkdir(node), FALSE)

\* rm(path, recursive): _rm_eos when eos is installed and the path is an
\* xrootd one, else _rm_gfal
Se_rm(node, recursive, eos) ==
    IF eos /\ use_xrootd(q_proto) /\ _isdir_xrootd(node).val.b /\ ~recursive
    THEN "RuntimeError"
    ELSE run_command(ExitRm(node, recursive), FALSE)

\* cp(src, dst): _cp_xrdcp or _cp_gfal with N_COPY_RETRIES = 0
Se_cp(src, dst) == run_command(ExitCp(src, dst), FALSE)

\* put(path, contents=...): the file is there afterwards, with the contents
Se_put(node) ==
    IF q_fs[node] = "dir" \/ (node # 1 /\ q_fs[1] # "dir") THEN "CalledProcessError"
    ELSE "output"

\* XrdImplementation.cat(path): the lines of `xrdfs cat`, joined
XrdImplementation_cat(c, node) ==
    IF run_command(ExitCat(node), FALSE) = "output"
    THEN Ret(PyStr(x_content[node]), c, 1)
    ELSE Exc(run_command(ExitCat(node), FALSE), c, 1)

NoMutation == [op |-> "none", node |-> 0, src |-> 0, recursive |-> FALSE, exc |-> "",
               content |-> ""]

InitSe ==
    /\ USE_CACHE = FALSE
    /\ q_cache = EmptyCache
    /\ q_fs \in SeNamespaces
    /\ q_proto \in {ProtoRoot, ProtoSrm}
    /\ q_fault = FALSE
    /\ q_ncalls = 0
    /\ q_last = NoCall
    /\ q_class = [n \in Nodes |-> -1]
    /\ x_content \in [SeNodes -> Contents \cup {""}]
    /\ \A n \in SeNodes : q_fs[n] = "file" <=> x_content[n] # ""
    /\ x_last = NoMutation

\* a mutation that drops what the cache holds
cache_dropped(c) == EmptyCache
\* mkdir, rm and cp call neither read_cache nor write_cache
cache_after_mutation(c) == c

\* the bookkeeping of one mutation: out is what run_command gave
Mutate(op, node, src, recursive, out, fs, content) ==
    /\ x_last' = [op |-> op, node |-> node, src |-> src, recursive |-> recursive,
                  exc |-> IF out = "output" THEN "ok" ELSE out,
                  content |-> IF src = 0 THEN "" ELSE x_content[src]]
    /\ q_fs' = IF out = "output" THEN fs ELSE q_fs
    /\ x_content' = IF out = "output" THEN content ELSE x_content
    /\ q_last' = NoCall
    /\ q_ncalls' = 0
    /\ q_cache' = cache_after_mutation(q_cache)
    /\ UNCHANGED <<USE_CACHE, q_proto, q_fault, q_class>>
    /\ UNCHANGED nonSeVars

CallSeMkdir ==
    \E out \in {Se_mkdir(1)} :
        Mutate("mkdir", 1, 0, FALSE, out, [q_fs EXCEPT ![1] = "dir"], x_content)

CallSePut ==
    \E node \in {2, 3}, contents \in Contents :
        \E out \in {Se_put(node)} :
            Mutate("put", node, 0, FALSE, out, [q_fs EXCEPT ![node] = "file"],
                   [x_content EXCEPT ![node] = contents])

CallSeCp ==
    \E src \in {2, 3}, dst \in {2, 3} :
        \E out \in {Se_cp(src, dst)} :
            Mutate("cp", dst, src, FALSE, out, [q_fs EXCEPT ![dst] = "file"],
                   [x_content EXCEPT ![dst] = x_content[src]])

CallSeRm ==
    \E node \in SeNodes, recursive \in BOOLEAN, eos \in BOOLEAN :
        \E out \in {Se_rm(node, recursive, eos)} :
            Mutate("rm", node, 0, recursive, out, AfterRm(q_fs, node),
                   [n \in SeNodes |-> IF AfterRm(q_fs, node)[n] = "file"
                                      THEN x_content[n] ELSE ""])

ReadIsdirOf(node) == Query("isdir", node, FALSE, FALSE, isdir(q_cache, node))
ReadIsdir == \E node \in SeNodes : ReadIsdirOf(node)

ReadIsfileOf(node) == Query("isfile", node, FALSE, FALSE, isfile(q_cache, node))
ReadIsfile == \E node \in SeNodes : ReadIsfileOf(node)

ReadListdir == Query("listdir", 1, FALSE, FALSE, listdir(q_cache, 1, FALSE, FALSE))

ReadCat ==
    /\ use_xrootd(q_proto)
    /\ \E node \in {2, 3} :
          Query("cat", node, FALSE, FALSE, XrdImplementation_cat(q_cache, node))

NextSe ==
    \/ CallSeMkdir
    \/ CallSePut
    \/ CallSeCp
    \/ CallSeRm
    \/ ReadIsdir
    \/ ReadIsfile
    \/ ReadListdir
    \/ ReadCat

(* Claims about reads after mutations *)

Answers(op, node, v) == q_last.op = op /\ q_last.node = node => (q_last.exc = "ok" /\ q_last.val = v)
Did(op) == x_last.op = op /\ x_last.exc = "ok" /\ q_last.op # "none"

\* C15: with the cache off, the read queries that follow a successful
\* mutation show its effect: a directory after mkdir; a file, not a
\* directory, and the only entry of its directory after put; a file with the
\* contents of the source after cp; no file after rm; no directory after a
\* recursive rm.
C15_ReadsReflectMutations ==
    /\ Did("mkdir") => Answers("isdir", x_last.node, PyBool(TRUE))
    /\ Did("put") =>
          /\ Answers("isfile", x_last.node, PyBool(TRUE))
          /\ Answers("isdir", x_last.node, PyBool(FALSE))
          /\ q_fs[5 - x_last.node] = "missing" =>
                Answers("listdir", 1, PyList(<<PyInt(x_last.node)>>))
    /\ Did("cp") =>
          /\ Answers("isfile", x_last.node, PyBool(TRUE))
          /\ Answers("cat", x_last.node, PyStr(x_last.content))
    /\ (Did("rm") /\ ~x_last.recursive) => Answers("isfile", x_last.node, PyBool(FALSE))
    /\ (Did("rm") /\ x_last.recursive) => Answers("isdir", x_last.node, PyBool(FALSE))

\* the same, for the paths the xrootd tools serve
C15_ReadsReflectMutationsXrootd == use_xrootd(q_proto) => C15_ReadsReflectMutations

(* SpecStale: the same mutations and reads with the cache on *)

InitStale ==
    /\ USE_CACHE = TRUE
    /\ q_cache = EmptyCache
    /\ q_fs \in SeNamespaces
    /\ q_proto \in {ProtoRoot, ProtoSrm}
    /\ q_fault = FALSE
    /\ q_ncalls = 0
    /\ q_last = NoCall
    /\ q_class = [n \in Nodes |-> -1]
    /\ x_content = [n \in SeNodes |-> IF q_fs[n] = "file" THEN "c1" ELSE ""]
    /\ x_last = NoMutation

\* the mutations of the claim, and the two queries asked about /d and /d/f
NextStale ==
    \/ CallSeMkdir
    \/ CallSeCp
    \/ CallSeRm
    \/ ReadIsdirOf(1)
    \/ ReadIsfileOf(2)

Mutated == x_last' # x_last \/ q_fs' # q_fs
StoreOf(op) == IF op = "isdir" THEN "seutils-cache.isdir" ELSE "seutils-cache.isfile"

\* C29: mkdir, rm and cp leave the cache as it is, so with caching on a
\* query answered from the cache after a successful mutation returns the
\* value that was stored before the mutation.
C29_MutationsLeaveCacheAlone ==
    [][/\ Mutated => q_cache' = q_cache
       /\ (q_ncalls' = q_ncalls + 1 /\ q_last'.op \in {"isdir", "isfile"}
             /\ CacheKey(StoreOf(q_last'.op), q_last'.node, "") \in DOMAIN q_cache) =>
             /\ q_last'.exc = "ok" /\ q_last'.spawned = 0
             /\ q_last'.val = q_cache[CacheKey(StoreOf(q_last'.op), q_last'.node, "")]]_vars

\* after a successful mkdir(d), isdir(d) is answered from the cache with the
\* False stored before
C29_Witness ==
    /\ x_last.op = "mkdir" /\ x_last.exc = "ok" /\ q_fs[1] = "dir"
    /\ q_last.op = "isdir" /\ q_last.node = 1 /\ q_last.spawned = 0
    /\ q_last.exc = "ok" /\ q_last.val = PyBool(FALSE)

\* after a successful rm(f), isfile(f) is answered True from the cache
C29_WitnessRm ==
    /\ x_last.op = "rm" /\ x_last.exc = "ok" /\ x_last.node = 2 /\ q_fs[2] = "missing"
    /\ q_last.op = "isfile" /\ q_last.node = 2 /\ q_last.spawned = 0
    /\ q_last.val = PyBool(TRUE)

-----------------------------------------------------------------------------
(* SpecLoad: the cache directory, the cache stores made for it, and        *)
(* load_tarball_cache                                                      *)

MaxLoads == 2
Subcaches == {"stat", "listdir"}
CacheValues == {"v1", "v2"}
NoValue == "None"
DefaultCachedir == <<".seutils-cache">>
LoadDsts == {<<"n">>, Cwd \o <<"n">>}
CacheDirs == {abspath(d) : d \in LoadDsts \cup {DefaultCachedir}}
\* what a directory of stores holds: per store, the value under the one key
Stores == [Subcaches -> CacheValues \cup {NoValue}]
NoStore == [n \in Subcaches |-> NoneStr]

\* FileCache(subcache_name, app_cache_dir=CACHEDIR): the store is bound to
\* the directory it was made for
FileCache(subcache_name, app_cache_dir) == Some(app_cache_dir)

\* a make_cache that makes the store anew on every call
make_cache_fresh(caches, cachedir, subcache_name) ==
    [caches EXCEPT ![subcache_name] = FileCache(subcache_name, cachedir)]
\* make_cache(subcache_name), caching on: CACHES after the call
make_cache(caches, cachedir, subcache_name) ==
    IF ~caches[subcache_name].some
    THEN [caches EXCEPT ![subcache_name] = FileCache(subcache_name, cachedir)]
    ELSE caches

\* `tar -xvf tarball -C dst`: the members of the archive replace the files
\* of the same name
Extract(tarball, old) ==
    [n \in Subcaches |-> IF tarball[n] # NoValue THEN tarball[n] ELSE old[n]]

\* `if dst is None: dst = CACHEDIR`, `dst = osp.abspath(dst)`
load_dst(dst, cachedir) == abspath(IF dst.some THEN dst.v ELSE cachedir)

NoLoad == [op |-> "none", exc |-> "", subcache |-> "", dir |-> <<>>, val |-> NoValue,
           use_cache |-> FALSE, cachedir |-> <<>>]

InitLoad ==
    /\ l_use_cache \in BOOLEAN
    /\ CACHEDIR = abspath(DefaultCachedir)
    /\ CACHES = NoStore
    /\ l_disk \in [CacheDirs -> {[n \in Subcaches |-> NoValue], [n \in Subcaches |-> "v1"]}]
    /\ l_loaded = NoneStr
    /\ l_nloads = 0
    /\ l_last = NoLoad

\* use_cache(flag)
LoadUseCache(flag) ==
    /\ l_use_cache' = flag
    /\ l_last' = [NoLoad EXCEPT !.op = "use_cache"]
    /\ UNCHANGED <<CACHEDIR, CACHES, l_disk, l_loaded, l_nloads>>
    /\ UNCHANGED nonLoadVars

\* read_cache(subcache_name, key)
ReadCache(subcache_name) ==
    /\ IF l_use_cache
       THEN \E caches \in {make_cache(CACHES, CACHEDIR, subcache_name)} :
               /\ CACHES' = caches
               /\ l_last' = [NoLoad EXCEPT !.op = "read", !.exc = "ok",
                                           !.subcache = subcache_name,
                                           !.dir = caches[subcache_name].v,
                                           !.val = l_disk[caches[subcache_name].v][subcache_name]]
       ELSE /\ l_last' = [NoLoad EXCEPT !.op = "read", !.exc = "off",
                                        !.subcache = subcache_name]
            /\ UNCHANGED CACHES
    /\ UNCHANGED <<l_use_cache, CACHEDIR, l_disk, l_loaded, l_nloads>>
    /\ UNCHANGED nonLoadVars

\* write_cache(subcache_name, key, value)
LoadWriteCache(subcache_name, value) ==
    /\ IF l_use_cache
       THEN \E caches \in {make_cache(CACHES, CACHEDIR, subcache_name)} :
               /\ CACHES' = caches
               /\ l_disk' = [l_disk EXCEPT ![caches[subcache_name].v][subcache_name] = value]
               /\ l_last' = [NoLoad EXCEPT !.op = "write", !.exc = "ok",
                                           !.subcache = subcache_name,
                                           !.dir = caches[subcache_name].v,
                                           !.val = value]
       ELSE /\ l_last' = [NoLoad EXCEPT !.op = "write", !.exc = "off",
                                        !.subcache = subcache_name]
            /\ UNCHANGED <<CACHES, l_disk>>
    /\ UNCHANGED <<l_use_cache, CACHEDIR, l_loaded, l_nloads>>
    /\ UNCHANGED nonLoadVars

\* load_tarball_cache(tarball, dst), the tar command leaving with exitcode
LoadTarballCache(tarball, dst, exitcode) ==
    /\ l_nloads < MaxLoads
    /\ l_nloads' = l_nloads + 1
    /\ \E d \in {load_dst(dst, CACHEDIR)} :
          IF run_command(exitcode, FALSE) = "output"
          THEN /\ l_disk' = [l_disk EXCEPT ![d] = Extract(tarball, l_disk[d])]
               /\ l_use_cache' = TRUE
               /\ CACHEDIR' = d
               /\ l_loaded' = Some(d)
               /\ l_last' = [NoLoad EXCEPT !.op = "load", !.exc = "ok", !.dir = d,
                                           !.use_cache = l_use_cache, !.cachedir = CACHEDIR]
          ELSE /\ l_last' = [NoLoad EXCEPT !.op = "load",
                                           !.exc = run_command(exitcode, FALSE),
                                           !.dir = d, !.use_cache = l_use_cache,
                                           !.cachedir = CACHEDIR]
               /\ UNCHANGED <<l_disk, l_use_cache, CACHEDIR, l_loaded>>
    /\ UNCHANGED CACHES
    /\ UNCHANGED nonLoadVars

NextLoad ==
    \/ \E flag \in BOOLEAN : LoadUseCache(flag)
    \/ \E subcache_name \in Subcaches : ReadCache(subcache_name)
    \/ \E subcache_name \in Subcaches, value \in CacheValues :
          LoadWriteCache(subcache_name, value)
    \/ \E tarball \in Stores, dst \in {NoneStr} \cup {Some(d) : d \in LoadDsts},
          exitcode \in {0, 2} : LoadTarballCache(tarball, dst, exitcode)

(* Claims about load_tarball_cache *)

Served == l_last.op \in {"read", "write"} /\ l_last.exc = "ok"

\* a successful load switches the flag on and makes dst the cache directory;
\* a failed one leaves both as they were
LoadSwitches ==
    l_last.op = "load" =>
        IF l_last.exc = "ok"
        THEN l_use_cache /\ CACHEDIR = l_last.dir
        ELSE l_use_cache = l_last.use_cache /\ CACHEDIR = l_last.cachedir

\* C21: after load_tarball_cache(tarball, dst) returns, caching is on and dst
\* is the cache directory, and every later cache read and write, whatever
\* the store and whether or not it was used before, goes to the store under
\* dst; a load whose extraction fails leaves the flag and the directory as
\* they were.
C21_LoadedDirectoryIsLive ==
    /\ LoadSwitches
    /\ (l_loaded.some /\ Served) => l_last.dir = l_loaded.v

-----------------------------------------------------------------------------
(* SpecGlob: ls_wildcard on a tree three levels deep, with the listing     *)
(* requests it makes; a second call on the same tree may follow the first  *)

\* the paths that may exist: the fixed prefix r://h//a, then b and c at two
\* levels, then d
GlobLevel1 == {ChildPath(WildParent, n) : n \in {<<"b">>, <<"c">>}}
GlobLevel2 == {ChildPath(p, n) : p \in GlobLevel1, n \in {<<"b">>, <<"c">>}}
GlobLevel3 == {ChildPath(p, <<"d">>) : p \in GlobLevel2}
GlobPaths == {WildParent} \cup GlobLevel1 \cup GlobLevel2 \cup GlobLevel3
GlobTrees ==
    {t \in [GlobPaths -> Kinds] :
        /\ \A p \in GlobPaths \ {WildParent} : t[rsplit1(p, "/")[1]] # "dir" => t[p] = "missing"
        /\ \A p \in GlobLevel3 : t[p] # "dir"}
\* the patterns, below the fixed prefix
GlobSegments == {<<"*">>, <<"b", "*">>, <<"*", "/", "b">>, <<"b", "/", "*">>,
                 <<"*", "/", "*">>, <<"*", "/", "b", "/", "*">>, <<"b", "*", "/", "*">>}

\* is_file_or_dir(path)
GlobStatus(tree, path) ==
    IF path \notin DOMAIN tree \/ tree[path] = "missing" THEN 0
    ELSE IF tree[path] = "dir" THEN 1 ELSE 2

\* the entries of a directory of one kind, sorted by basename
GlobEntries(tree, path, is_dir) ==
    SelectSeq(<<ChildPath(path, <<"b">>), ChildPath(path, <<"c">>), ChildPath(path, <<"d">>)>>,
              LAMBDA c : c \in DOMAIN tree /\ tree[c] = (IF is_dir THEN "dir" ELSE "file"))

\* [ d for d in directories if regex.match(d) ]
RegexFilter(regex, paths) == SelectSeq(paths, LAMBDA c : re_match(regex, c))

\* '/'.join(pattern.split('/')[:level+2]).replace('*', '.*')
trimmed_pattern(pattern, level) == replace_star(first_segments(pattern, level + 2))

\* a loop that goes on below the depth of the pattern
keep_descending(directories) == directories
\* `directories[:] = []`
stop_descending(directories) == <<>>

SeqToSet(s) == {s[i] : i \in 1..Len(s)}

NoGlob == [path |-> "none", stat |-> FALSE, res |-> NoWild, listed |-> <<>>]

InitGlob ==
    /\ g_tree \in GlobTrees
    /\ g_pattern \in {ChildPath(WildParent, s) : s \in GlobSegments}
    /\ g_stat = FALSE
    /\ g_pc = "idle"
    /\ g_path = "none"
    /\ g_stack = <<>>
    /\ g_listed = <<>>
    /\ g_matches = {}
    /\ g_res = NoWild
    /\ g_prev = NoGlob

\* the shortcut of ls_wildcard: ls(directory), then the match on basenames
GlobShortcut ==
    /\ g_pc \in {"idle", "done"}
    /\ g_prev = NoGlob
    /\ ~contains(rsplit1(g_pattern, "/")[1], Star)
    /\ g_stat' = FALSE
    /\ g_path' = "fast"
    /\ g_pc' = "done"
    /\ g_prev' = [path |-> g_path, stat |-> g_stat, res |-> g_res, listed |-> g_listed]
    /\ \E directory \in {rsplit1(g_pattern, "/")[1]}, segment \in {rsplit1(g_pattern, "/")[2]} :
          \E status \in {GlobStatus(g_tree, directory)} :
             \E contents \in {IF status = 1
                              THEN {c \in GlobPaths : c \in DOMAIN g_tree /\ g_tree[c] # "missing"
                                                      /\ rsplit1(c, "/")[1] = directory}
                              ELSE {directory}} :
                /\ g_listed' = IF status = 1 THEN <<directory>> ELSE <<>>
                /\ g_res' = IF status = 0 THEN WildRaise("RuntimeError")
                            ELSE IF segment = Star THEN Ok(contents)
                            ELSE Ok({c \in contents :
                                       re_match(replace_star(segment), basename(c))})
    /\ g_stack' = <<>>
    /\ g_matches' = {}
    /\ UNCHANGED <<g_tree, g_pattern>>
    /\ UNCHANGED nonGlobVars

\* the general path of ls_wildcard up to the first triple: walk(base, stat)
\* checks that base is a directory
GlobWalk(stat_) ==
    /\ g_pc \in {"idle", "done"}
    /\ g_prev = NoGlob
    /\ stat_ \/ contains(rsplit1(g_pattern, "/")[1], Star)
    /\ g_stat' = stat_
    /\ g_path' = "walk"
    /\ g_prev' = [path |-> g_path, stat |-> g_stat, res |-> g_res, listed |-> g_listed]
    /\ g_listed' = <<>>
    /\ g_matches' = {}
    /\ \E base \in {rsplit1(split1(g_pattern, Star)[1], "/")[1]} :
          IF GlobStatus(g_tree, base) # 1
          THEN g_pc' = "done" /\ g_res' = WildRaise("RuntimeError") /\ g_stack' = <<>>
          ELSE g_pc' = "walking" /\ g_res' = NoWild /\ g_stack' = <<base>>
    /\ UNCHANGED <<g_tree, g_pattern>>
    /\ UNCHANGED nonGlobVars

\* one triple of the walk and the body of the loop of ls_wildcard for it
GlobTriple ==
    /\ g_pc = "walking"
    /\ g_stack # <<>>
    /\ IF budget_spent(Len(g_listed))
       THEN /\ g_pc' = "done"
            /\ g_res' = WildRaise("RuntimeError")
            /\ g_stack' = <<>>
            /\ UNCHANGED <<g_listed, g_matches>>
       ELSE \E path \in {Head(g_stack)} :
              \E level \in {count(path, "/")} :
                 \E regex \in {trimmed_pattern(g_pattern, level)} :
                    \E directories \in {RegexFilter(regex, GlobEntries(g_tree, path, TRUE))} :
                       /\ g_listed' = Append(g_listed, path)
                       /\ IF level + 1 = count(g_pattern, "/")
                          THEN /\ g_matches' =
                                     g_matches \cup SeqToSet(directories)
                                         \cup SeqToSet(RegexFilter(regex,
                                                  GlobEntries(g_tree, path, FALSE)))
                               /\ g_stack' = stop_descending(directories) \o Tail(g_stack)
                          ELSE /\ g_matches' = g_matches
                               /\ g_stack' = directories \o Tail(g_stack)
                       /\ UNCHANGED <<g_pc, g_res>>
    /\ UNCHANGED <<g_tree, g_pattern, g_stat, g_path, g_prev>>
    /\ UNCHANGED nonGlobVars

\* the walk is exhausted: `return matches`
GlobReturn ==
    /\ g_pc = "walking"
    /\ g_stack = <<>>
    /\ g_pc' = "done"
    /\ g_res' = Ok(g_matches)
    /\ UNCHANGED <<g_tree, g_pattern, g_stat, g_path, g_stack, g_listed, g_matches, g_prev>>
    /\ UNCHANGED nonGlobVars

NextGlob ==
    \/ GlobShortcut
    \/ \E stat_ \in BOOLEAN : GlobWalk(stat_)
    \/ GlobTriple
    \/ GlobReturn

(* Claims about the two paths of ls_wildcard *)

GlobDepth(p) == count(p, "/")
GlobBase == rsplit1(split1(g_pattern, Star)[1], "/")[1]
ListedDirs == SeqToSet(g_listed)

\* C27: on its walk-based path ls_wildcard lists only the fixed prefix and
\* directories whose path matches the pattern truncated to their depth,
\* never a directory at or below the depth of the pattern, and returns only
\* entries at exactly the depth of the pattern; on the shortcut (wildcard in
\* the last segment only, stat False) it makes one listing request, for the
\* parent directory, and no walk.
C27_ListsOnlyWhatCanMatch ==
    /\ g_path = "walk" =>
          /\ \A d \in ListedDirs :
                /\ d = GlobBase \/
                      re_match(replace_star(first_segments(g_pattern, GlobDepth(d) + 1)), d)
                /\ GlobDepth(d) < GlobDepth(g_pattern)
                /\ g_tree[d] = "dir"
          /\ Len(g_listed) = Cardinality(ListedDirs)
          /\ \A m \in g_matches : GlobDepth(m) = GlobDepth(g_pattern)
          /\ (g_pc = "done" /\ g_res.exc = "ok") => g_res.val = g_matches
    /\ g_path = "fast" =>
          /\ g_pc = "done"
          /\ Len(g_listed) <= 1
          /\ GlobStatus(g_tree, rsplit1(g_pattern, "/")[1]) = 1 =>
                g_listed = <<rsplit1(g_pattern, "/")[1]>>
          /\ g_res.exc = "ok" => \A m \in g_res.val : GlobDepth(m) <= GlobDepth(g_pattern)

\* a walk has listed three directories, left out a directory that cannot
\* match and a directory at the depth of the pattern, and returned entries
C27_Witness ==
    /\ g_path = "walk" /\ g_pc = "done" /\ g_res.exc = "ok" /\ g_res.val # {}
    /\ Len(g_listed) >= 2
    /\ \E d \in GlobLevel1 : g_tree[d] = "dir" /\ d \notin ListedDirs
    /\ \E d \in GlobLevel2 : g_tree[d] = "dir" /\ d \in g_res.val

C27_WitnessShortcut ==
    /\ g_path = "fast" /\ g_res.exc = "ok" /\ g_res.val # {}
    /\ g_listed = <<WildParent>>

LastSegmentOnly == ~contains(rsplit1(g_pattern, "/")[1], Star)

\* C30: for a pattern with wildcards in its last segment only, the shortcut
\* (stat False) and the walk-based path (stat True) return the same set of
\* paths and fail in the same cases, whatever the tree.
C30_PathsAgree ==
    (LastSegmentOnly /\ g_pc = "done" /\ g_prev.path # "none" /\ g_prev.path # g_path) =>
        g_res = g_prev.res

\* the same when the parent of the last segment is not a file
C30_PathsAgreeUnlessParentIsFile ==
    GlobStatus(g_tree, rsplit1(g_pattern, "/")[1]) # 2 => C30_PathsAgree

-----------------------------------------------------------------------------
(* Specifications *)

IdleAddr ==
    /\ DEFAULT_MGM = NoneStr
    /\ a_path = <<>>
    /\ a_mgm = NoneStr
    /\ a_pc = "idle"
    /\ a_res = Raise("nocall")
    /\ a_res2 = Raise("nocall")

IdleCache ==
    /\ USE_CACHE = FALSE
    /\ q_cache = EmptyCache
    /\ q_fs = [n \in Nodes |-> "missing"]
    /\ q_proto = ProtoRoot
    /\ q_fault = FALSE
    /\ q_ncalls = 0
    /\ q_last = NoCall
    /\ q_class = [n \in Nodes |-> -1]

IdleRm ==
    /\ RM_BLACKLIST = {}
    /\ RM_WHITELIST = {}
    /\ r_fs = [l \in RmLfns |-> "missing"]
    /\ r_eos = "absent"
    /\ r_last = NoRm

IdleWalk ==
    /\ MAX_RECURSION_DEPTH = DEFAULT_MAX_RECURSION_DEPTH
    /\ w_shape = "chain"
    /\ w_n = 1
    /\ w_root = [w \in Walkers |-> 1]
    /\ w_stat = [w \in Walkers |-> FALSE]
    /\ w_pc = [w \in Walkers |-> "created"]
    /\ w_err = [w \in Walkers |-> "none"]
    /\ w_stack = [w \in Walkers |-> <<>>]
    /\ w_counter = [w \in Walkers |-> 0]
    /\ w_requests = [w \in Walkers |-> 0]
    /\ w_listed = [w \in Walkers |-> {}]
    /\ w_pruned = [w \in Walkers |-> {}]
    /\ w_prunes = 0

IdleHadd ==
    /\ h_n = 0
    /\ h_chunk_size = 1
    /\ h_n_threads = 1
    /\ h_dry = FALSE
    /\ h_on_path = TRUE
    /\ h_stack = <<>>
    /\ h_pc = "done"
    /\ h_err = "none"
    /\ h_dirs = {}
    /\ h_files = {}
    /\ h_created = {}
    /\ h_log = <<>>

IdleRun == InitRun

IdleMgm == m_env = NoneStr /\ m_set = NoneStr

IdleTar == InitTar /\ t_use_cache = FALSE

IdleWild ==
    /\ k_files = {}
    /\ k_subdir = NoneStr
    /\ k_segment = <<>>
    /\ k_stat = FALSE
    /\ k_res = NoWild

IdleSe == x_content = <<>> /\ x_last = NoMutation

IdleLoad ==
    /\ l_use_cache = FALSE /\ CACHEDIR = <<>> /\ CACHES = <<>> /\ l_disk = <<>>
    /\ l_loaded = NoneStr /\ l_nloads = 0 /\ l_last = NoLoad

IdleGlob ==
    /\ g_tree = <<>> /\ g_pattern = <<>> /\ g_stat = FALSE /\ g_pc = "idle"
    /\ g_path = "none" /\ g_stack = <<>> /\ g_listed = <<>> /\ g_matches = {}
    /\ g_res = NoWild /\ g_prev = NoGlob

InitAddrAll == InitAddr /\ IdleCache /\ IdleRm /\ IdleWalk /\ IdleHadd /\ IdleRun /\ IdleMgm /\ IdleTar /\ IdleWild /\ IdleSe /\ IdleLoad /\ IdleGlob

InitCacheAll == InitCache /\ IdleAddr /\ IdleRm /\ IdleWalk /\ IdleHadd /\ IdleRun /\ IdleMgm /\ IdleTar /\ IdleWild /\ IdleSe /\ IdleLoad /\ IdleGlob

InitRmAll == InitRm /\ IdleAddr /\ IdleCache /\ IdleWalk /\ IdleHadd /\ IdleRun /\ IdleMgm /\ IdleTar /\ IdleWild /\ IdleSe /\ IdleLoad /\ IdleGlob

InitWalkAll == InitWalk /\ IdleAddr /\ IdleCache /\ IdleRm /\ IdleHadd /\ IdleRun /\ IdleMgm /\ IdleTar /\ IdleWild /\ IdleSe /\ IdleLoad /\ IdleGlob

InitHaddAll == InitHadd /\ IdleAddr /\ IdleCache /\ IdleRm /\ IdleWalk /\ IdleRun /\ IdleMgm /\ IdleTar /\ IdleWild /\ IdleSe /\ IdleLoad /\ IdleGlob

InitRunAll == InitRun /\ IdleAddr /\ IdleCache /\ IdleRm /\ IdleWalk /\ IdleHadd /\ IdleMgm /\ IdleTar /\ IdleWild /\ IdleSe /\ IdleLoad /\ IdleGlob

InitMgmAll == InitMgm /\ IdleCache /\ IdleRm /\ IdleWalk /\ IdleHadd /\ IdleRun /\ IdleTar /\ IdleWild /\ IdleSe /\ IdleLoad /\ IdleGlob

InitTarAll == InitTar /\ IdleAddr /\ IdleCache /\ IdleRm /\ IdleWalk /\ IdleHadd /\ IdleRun /\ IdleMgm /\ IdleWild /\ IdleSe /\ IdleLoad /\ IdleGlob

InitWildAll == InitWild /\ IdleAddr /\ IdleCache /\ IdleRm /\ IdleWalk /\ IdleHadd /\ IdleRun /\ IdleMgm /\ IdleTar /\ IdleSe /\ IdleLoad /\ IdleGlob

InitSeAll == InitSe /\ IdleAddr /\ IdleRm /\ IdleWalk /\ IdleHadd /\ IdleRun /\ IdleMgm /\ IdleTar /\ IdleWild /\ IdleLoad /\ IdleGlob

InitStaleAll == InitStale /\ IdleAddr /\ IdleRm /\ IdleWalk /\ IdleHadd /\ IdleRun /\ IdleMgm /\ IdleTar /\ IdleWild /\ IdleLoad /\ IdleGlob

InitLoadAll == InitLoad /\ IdleAddr /\ IdleCache /\ IdleRm /\ IdleWalk /\ IdleHadd /\ IdleRun /\ IdleMgm /\ IdleTar /\ IdleWild /\ IdleSe /\ IdleGlob

InitGlobAll == InitGlob /\ IdleAddr /\ IdleCache /\ IdleRm /\ IdleWalk /\ IdleHadd /\ IdleRun /\ IdleMgm /\ IdleTar /\ IdleWild /\ IdleSe /\ IdleLoad

SpecAddr == InitAddrAll /\ [][NextAddr]_vars

SpecCache == InitCacheAll /\ [][NextCache]_vars

SpecRm == InitRmAll /\ [][NextRm]_vars

SpecWalk == InitWalkAll /\ [][NextWalk]_vars

SpecHadd == InitHaddAll /\ [][NextHadd]_vars

SpecRun == InitRunAll /\ [][NextRun]_vars

SpecMgm == InitMgmAll /\ [][NextMgm]_vars

SpecTar == InitTarAll /\ [][NextTar]_vars

SpecWild == InitWildAll /\ [][NextWild]_vars

SpecSe == InitSeAll /\ [][NextSe]_vars

SpecStale == InitStaleAll /\ [][NextStale]_vars

SpecLoad == InitLoadAll /\ [][NextLoad]_vars

SpecGlob == InitGlobAll /\ [][NextGlob]_vars

=============================================================================
